---- MODULE Spec2Model ----
(***************************************************************************)
(* A model of the Viper-to-IR translator (src/scripts/viper_parser.py and  *)
(* its earlier variant src/parser/viper_parser.py).                        *)
(*                                                                         *)
(* Syntax-tree nodes are records with a field t naming the Python ast      *)
(* class; source lines are sequences of one-character strings; rendered    *)
(* IR text is a string.  A translation function returns a record           *)
(* [exc, text]: exc = "" for a normal return, otherwise the name of the    *)
(* exception class that propagated out of it.                              *)
(***************************************************************************)
EXTENDS Integers, Sequences, FiniteSets, TLC

VARIABLES inputLines, stmtsIndent, input, out, op, runs

vars == <<inputLines, stmtsIndent, input, out, op, runs>>

(***************************************************************************)
(* Results of a translation function.                                      *)
(***************************************************************************)
Ok(s) == [exc |-> "", text |-> s]

Raise(e) == [exc |-> e, text |-> ""]

NoOut == [exc |-> "", text |-> ""]

None == [t |-> "None"]

(***************************************************************************)
(* Characters and strings.                                                 *)
(***************************************************************************)
RECURSIVE JoinChars(_)
JoinChars(cs) == IF cs = <<>> THEN "" ELSE Head(cs) \o JoinChars(Tail(cs))

Drop(s, k) == IF k >= Len(s) THEN <<>> ELSE SubSeq(s, k + 1, Len(s))

Take(s, k) == IF k >= Len(s) THEN s ELSE SubSeq(s, 1, k)

\* A character is a string of one character.  The characters U+0001..U+007F
\* (less the backquote, which no string here can hold), whose UTF-8 encoding
\* is one byte: the control characters first, then the printable ones.
AsciiChars ==
    {"\n", "\r", "", "", "", "", "", "", "", "", "", "", "", "", "", "", "", "", "", "", "", "", "", "", "", "", "", "", "", "", "",
     "\t", " ", "!", "\"", "#", "$", "%", "&", "'", "(", ")", "*", "+",
     ",", "-", ".", "/", "0", "1", "2", "3", "4", "5", "6", "7",
     "8", "9", ":", ";", "<", "=", ">", "?", "@", "A", "B", "C",
     "D", "E", "F", "G", "H", "I", "J", "K", "L", "M", "N", "O",
     "P", "Q", "R", "S", "T", "U", "V", "W", "X", "Y", "Z", "[",
     "\\", "]", "^", "_", "a", "b", "c", "d", "e", "f", "g",
     "h", "i", "j", "k", "l", "m", "n", "o", "p", "q", "r", "s",
     "t", "u", "v", "w", "x", "y", "z", "{", "|", "}", "~"}

\* The characters from U+0080 to U+07FF that a string here can hold (those
\* with a code point whose low byte is 0x80 or more): two bytes in UTF-8.
\* The control characters U+0080..U+009F come first.
TwoByteChars ==
    {"", "", "", "", "", "", "", "", "", "", "", "", "", "", "", "", "", "", "", "", "", "", "", "", "", "", "", "", "", "", "", "",
     " ", "¡", "¢", "£", "¤", "¥", "¦", "§", "¨", "©", "ª", "«", "¬", "­", "®", "¯",
     "°", "±", "²", "³", "´", "µ", "¶", "·", "¸", "¹", "º", "»", "¼", "½", "¾", "¿",
     "À", "Á", "Â", "Ã", "Ä", "Å", "Æ", "Ç", "È", "É", "Ê", "Ë", "Ì", "Í", "Î", "Ï",
     "Ð", "Ñ", "Ò", "Ó", "Ô", "Õ", "Ö", "×", "Ø", "Ù", "Ú", "Û", "Ü", "Ý", "Þ", "ß",
     "à", "á", "â", "ã", "ä", "å", "æ", "ç", "è", "é", "ê", "ë", "ì", "í", "î", "ï",
     "ð", "ñ", "ò", "ó", "ô", "õ", "ö", "÷", "ø", "ù", "ú", "û", "ü", "ý", "þ", "ÿ",
     "ƀ", "Ɓ", "Ƃ", "ƃ", "Ƅ", "ƅ", "Ɔ", "Ƈ", "ƈ", "Ɖ", "Ɗ", "Ƌ", "ƌ", "ƍ", "Ǝ", "Ə",
     "Ɛ", "Ƒ", "ƒ", "Ɠ", "Ɣ", "ƕ", "Ɩ", "Ɨ", "Ƙ", "ƙ", "ƚ", "ƛ", "Ɯ", "Ɲ", "ƞ", "Ɵ",
     "Ơ", "ơ", "Ƣ", "ƣ", "Ƥ", "ƥ", "Ʀ", "Ƨ", "ƨ", "Ʃ", "ƪ", "ƫ", "Ƭ", "ƭ", "Ʈ", "Ư",
     "ư", "Ʊ", "Ʋ", "Ƴ", "ƴ", "Ƶ", "ƶ", "Ʒ", "Ƹ", "ƹ", "ƺ", "ƻ", "Ƽ", "ƽ", "ƾ", "ƿ",
     "ǀ", "ǁ", "ǂ", "ǃ", "Ǆ", "ǅ", "ǆ", "Ǉ", "ǈ", "ǉ", "Ǌ", "ǋ", "ǌ", "Ǎ", "ǎ", "Ǐ",
     "ǐ", "Ǒ", "ǒ", "Ǔ", "ǔ", "Ǖ", "ǖ", "Ǘ", "ǘ", "Ǚ", "ǚ", "Ǜ", "ǜ", "ǝ", "Ǟ", "ǟ",
     "Ǡ", "ǡ", "Ǣ", "ǣ", "Ǥ", "ǥ", "Ǧ", "ǧ", "Ǩ", "ǩ", "Ǫ", "ǫ", "Ǭ", "ǭ", "Ǯ", "ǯ",
     "ǰ", "Ǳ", "ǲ", "ǳ", "Ǵ", "ǵ", "Ƕ", "Ƿ", "Ǹ", "ǹ", "Ǻ", "ǻ", "Ǽ", "ǽ", "Ǿ", "ǿ",
     "ʀ", "ʁ", "ʂ", "ʃ", "ʄ", "ʅ", "ʆ", "ʇ", "ʈ", "ʉ", "ʊ", "ʋ", "ʌ", "ʍ", "ʎ", "ʏ",
     "ʐ", "ʑ", "ʒ", "ʓ", "ʔ", "ʕ", "ʖ", "ʗ", "ʘ", "ʙ", "ʚ", "ʛ", "ʜ", "ʝ", "ʞ", "ʟ",
     "ʠ", "ʡ", "ʢ", "ʣ", "ʤ", "ʥ", "ʦ", "ʧ", "ʨ", "ʩ", "ʪ", "ʫ", "ʬ", "ʭ", "ʮ", "ʯ",
     "ʰ", "ʱ", "ʲ", "ʳ", "ʴ", "ʵ", "ʶ", "ʷ", "ʸ", "ʹ", "ʺ", "ʻ", "ʼ", "ʽ", "ʾ", "ʿ",
     "ˀ", "ˁ", "˂", "˃", "˄", "˅", "ˆ", "ˇ", "ˈ", "ˉ", "ˊ", "ˋ", "ˌ", "ˍ", "ˎ", "ˏ",
     "ː", "ˑ", "˒", "˓", "˔", "˕", "˖", "˗", "˘", "˙", "˚", "˛", "˜", "˝", "˞", "˟",
     "ˠ", "ˡ", "ˢ", "ˣ", "ˤ", "˥", "˦", "˧", "˨", "˩", "˪", "˫", "ˬ", "˭", "ˮ", "˯",
     "˰", "˱", "˲", "˳", "˴", "˵", "˶", "˷", "˸", "˹", "˺", "˻", "˼", "˽", "˾", "˿",
     "΀", "΁", "΂", "΃", "΄", "΅", "Ά", "·", "Έ", "Ή", "Ί", "΋", "Ό", "΍", "Ύ", "Ώ",
     "ΐ", "Α", "Β", "Γ", "Δ", "Ε", "Ζ", "Η", "Θ", "Ι", "Κ", "Λ", "Μ", "Ν", "Ξ", "Ο",
     "Π", "Ρ", "΢", "Σ", "Τ", "Υ", "Φ", "Χ", "Ψ", "Ω", "Ϊ", "Ϋ", "ά", "έ", "ή", "ί",
     "ΰ", "α", "β", "γ", "δ", "ε", "ζ", "η", "θ", "ι", "κ", "λ", "μ", "ν", "ξ", "ο",
     "π", "ρ", "ς", "σ", "τ", "υ", "φ", "χ", "ψ", "ω", "ϊ", "ϋ", "ό", "ύ", "ώ", "Ϗ",
     "ϐ", "ϑ", "ϒ", "ϓ", "ϔ", "ϕ", "ϖ", "ϗ", "Ϙ", "ϙ", "Ϛ", "ϛ", "Ϝ", "ϝ", "Ϟ", "ϟ",
     "Ϡ", "ϡ", "Ϣ", "ϣ", "Ϥ", "ϥ", "Ϧ", "ϧ", "Ϩ", "ϩ", "Ϫ", "ϫ", "Ϭ", "ϭ", "Ϯ", "ϯ",
     "ϰ", "ϱ", "ϲ", "ϳ", "ϴ", "ϵ", "϶", "Ϸ", "ϸ", "Ϲ", "Ϻ", "ϻ", "ϼ", "Ͻ", "Ͼ", "Ͽ",
     "Ҁ", "ҁ", "҂", "҃", "҄", "҅", "҆", "҇", "҈", "҉", "Ҋ", "ҋ", "Ҍ", "ҍ", "Ҏ", "ҏ",
     "Ґ", "ґ", "Ғ", "ғ", "Ҕ", "ҕ", "Җ", "җ", "Ҙ", "ҙ", "Қ", "қ", "Ҝ", "ҝ", "Ҟ", "ҟ",
     "Ҡ", "ҡ", "Ң", "ң", "Ҥ", "ҥ", "Ҧ", "ҧ", "Ҩ", "ҩ", "Ҫ", "ҫ", "Ҭ", "ҭ", "Ү", "ү",
     "Ұ", "ұ", "Ҳ", "ҳ", "Ҵ", "ҵ", "Ҷ", "ҷ", "Ҹ", "ҹ", "Һ", "һ", "Ҽ", "ҽ", "Ҿ", "ҿ",
     "Ӏ", "Ӂ", "ӂ", "Ӄ", "ӄ", "Ӆ", "ӆ", "Ӈ", "ӈ", "Ӊ", "ӊ", "Ӌ", "ӌ", "Ӎ", "ӎ", "ӏ",
     "Ӑ", "ӑ", "Ӓ", "ӓ", "Ӕ", "ӕ", "Ӗ", "ӗ", "Ә", "ә", "Ӛ", "ӛ", "Ӝ", "ӝ", "Ӟ", "ӟ",
     "Ӡ", "ӡ", "Ӣ", "ӣ", "Ӥ", "ӥ", "Ӧ", "ӧ", "Ө", "ө", "Ӫ", "ӫ", "Ӭ", "ӭ", "Ӯ", "ӯ",
     "Ӱ", "ӱ", "Ӳ", "ӳ", "Ӵ", "ӵ", "Ӷ", "ӷ", "Ӹ", "ӹ", "Ӻ", "ӻ", "Ӽ", "ӽ", "Ӿ", "ӿ",
     "ր", "ց", "ւ", "փ", "ք", "օ", "ֆ", "և", "ֈ", "։", "֊", "֋", "֌", "֍", "֎", "֏",
     "֐", "֑", "֒", "֓", "֔", "֕", "֖", "֗", "֘", "֙", "֚", "֛", "֜", "֝", "֞", "֟",
     "֠", "֡", "֢", "֣", "֤", "֥", "֦", "֧", "֨", "֩", "֪", "֫", "֬", "֭", "֮", "֯",
     "ְ", "ֱ", "ֲ", "ֳ", "ִ", "ֵ", "ֶ", "ַ", "ָ", "ֹ", "ֺ", "ֻ", "ּ", "ֽ", "־", "ֿ",
     "׀", "ׁ", "ׂ", "׃", "ׄ", "ׅ", "׆", "ׇ", "׈", "׉", "׊", "׋", "׌", "׍", "׎", "׏",
     "א", "ב", "ג", "ד", "ה", "ו", "ז", "ח", "ט", "י", "ך", "כ", "ל", "ם", "מ", "ן",
     "נ", "ס", "ע", "ף", "פ", "ץ", "צ", "ק", "ר", "ש", "ת", "׫", "׬", "׭", "׮", "ׯ",
     "װ", "ױ", "ײ", "׳", "״", "׵", "׶", "׷", "׸", "׹", "׺", "׻", "׼", "׽", "׾", "׿",
     "ڀ", "ځ", "ڂ", "ڃ", "ڄ", "څ", "چ", "ڇ", "ڈ", "ډ", "ڊ", "ڋ", "ڌ", "ڍ", "ڎ", "ڏ",
     "ڐ", "ڑ", "ڒ", "ړ", "ڔ", "ڕ", "ږ", "ڗ", "ژ", "ڙ", "ښ", "ڛ", "ڜ", "ڝ", "ڞ", "ڟ",
     "ڠ", "ڡ", "ڢ", "ڣ", "ڤ", "ڥ", "ڦ", "ڧ", "ڨ", "ک", "ڪ", "ګ", "ڬ", "ڭ", "ڮ", "گ",
     "ڰ", "ڱ", "ڲ", "ڳ", "ڴ", "ڵ", "ڶ", "ڷ", "ڸ", "ڹ", "ں", "ڻ", "ڼ", "ڽ", "ھ", "ڿ",
     "ۀ", "ہ", "ۂ", "ۃ", "ۄ", "ۅ", "ۆ", "ۇ", "ۈ", "ۉ", "ۊ", "ۋ", "ی", "ۍ", "ێ", "ۏ",
     "ې", "ۑ", "ے", "ۓ", "۔", "ە", "ۖ", "ۗ", "ۘ", "ۙ", "ۚ", "ۛ", "ۜ", "۝", "۞", "۟",
     "۠", "ۡ", "ۢ", "ۣ", "ۤ", "ۥ", "ۦ", "ۧ", "ۨ", "۩", "۪", "۫", "۬", "ۭ", "ۮ", "ۯ",
     "۰", "۱", "۲", "۳", "۴", "۵", "۶", "۷", "۸", "۹", "ۺ", "ۻ", "ۼ", "۽", "۾", "ۿ",
     "ހ", "ށ", "ނ", "ރ", "ބ", "ޅ", "ކ", "އ", "ވ", "މ", "ފ", "ދ", "ތ", "ލ", "ގ", "ޏ",
     "ސ", "ޑ", "ޒ", "ޓ", "ޔ", "ޕ", "ޖ", "ޗ", "ޘ", "ޙ", "ޚ", "ޛ", "ޜ", "ޝ", "ޞ", "ޟ",
     "ޠ", "ޡ", "ޢ", "ޣ", "ޤ", "ޥ", "ަ", "ާ", "ި", "ީ", "ު", "ޫ", "ެ", "ޭ", "ޮ", "ޯ",
     "ް", "ޱ", "޲", "޳", "޴", "޵", "޶", "޷", "޸", "޹", "޺", "޻", "޼", "޽", "޾", "޿",
     "߀", "߁", "߂", "߃", "߄", "߅", "߆", "߇", "߈", "߉", "ߊ", "ߋ", "ߌ", "ߍ", "ߎ", "ߏ",
     "ߐ", "ߑ", "ߒ", "ߓ", "ߔ", "ߕ", "ߖ", "ߗ", "ߘ", "ߙ", "ߚ", "ߛ", "ߜ", "ߝ", "ߞ", "ߟ",
     "ߠ", "ߡ", "ߢ", "ߣ", "ߤ", "ߥ", "ߦ", "ߧ", "ߨ", "ߩ", "ߪ", "߫", "߬", "߭", "߮", "߯",
     "߰", "߱", "߲", "߳", "ߴ", "ߵ", "߶", "߷", "߸", "߹", "ߺ", "߻", "߼", "߽", "߾", "߿"}

\* The number of bytes of the UTF-8 encoding of the character c.  A character
\* above U+FFFF is a string of two UTF-16 code units and takes four bytes;
\* the remaining ones, U+0800..U+FFFF, take three.
Utf8Width(c) ==
    IF Len(c) > 1 THEN 4
    ELSE IF c \in AsciiChars THEN 1
    ELSE IF c \in TwoByteChars THEN 2
    ELSE 3

\* ast's col_offset of a token: the UTF-8 byte length of the text before it.
RECURSIVE Utf8Len(_)
Utf8Len(cs) == IF cs = <<>> THEN 0 ELSE Utf8Width(Head(cs)) + Utf8Len(Tail(cs))

HexDigitChars ==
    {"0", "1", "2", "3", "4", "5", "6", "7", "8", "9",
     "a", "b", "c", "d", "e", "f", "A", "B", "C", "D", "E", "F"}

HexDigitValue(c) ==
    CASE c = "0" -> 0 [] c = "1" -> 1 [] c = "2" -> 2 [] c = "3" -> 3
      [] c = "4" -> 4 [] c = "5" -> 5 [] c = "6" -> 6 [] c = "7" -> 7
      [] c = "8" -> 8 [] c = "9" -> 9
      [] c \in {"a", "A"} -> 10 [] c \in {"b", "B"} -> 11
      [] c \in {"c", "C"} -> 12 [] c \in {"d", "D"} -> 13
      [] c \in {"e", "E"} -> 14 [] c \in {"f", "F"} -> 15

\* The value Python's parser gives an integer literal of the given base.
RECURSIVE DigitsValue(_, _)
DigitsValue(cs, base) ==
    IF cs = <<>> THEN 0
    ELSE DigitsValue(SubSeq(cs, 1, Len(cs) - 1), base) * base
         + HexDigitValue(cs[Len(cs)])

(***************************************************************************)
(* get_original_if_0x_prefixed: the text of an integer literal, read back  *)
(* from the source line at the node's position.                            *)
(***************************************************************************)
RECURSIVE HexRunLoop(_, _)
HexRunLoop(context_slice, t) ==
    IF t + 2 < Len(context_slice) /\ context_slice[t + 3] \in HexDigitChars
    THEN HexRunLoop(context_slice, t + 1)
    ELSE t

get_original_if_0x_prefixed(lines, expr) ==
    LET context_slice == Drop(lines[expr.lineno], expr.col_offset)
    IN  IF Take(context_slice, 2) # <<"0", "x">>
        THEN [isNone |-> TRUE, s |-> <<>>]
        ELSE [isNone |-> FALSE,
              s |-> Take(context_slice, HexRunLoop(context_slice, 0) + 2)]

(***************************************************************************)
(* Unbounded integers and IEEE-754 binary64 values.  Python's int is       *)
(* unbounded and its float is a binary64, so the numbers parseFixed10Const *)
(* works on do not fit the model checker's integers.  A natural number is  *)
(* a Big: a little-endian sequence of limbs in base 2^15 with no leading   *)
(* zero limb (<<>> is 0).  A float is [kind, neg, m, e]: kind "fin" stands *)
(* for (-1)^neg * m * 2^e with m = <<>> (zero) or 2^52 <= m < 2^53; kind   *)
(* "inf" is an infinity.  A subnormal is kept normalized too, with an       *)
(* exponent below the normal range.                                        *)
(***************************************************************************)
MantissaBits == 53

LimbBits == 15

LimbBase == 32768

BigTrim(a) ==
    LET nz == {i \in 1..Len(a) : a[i] # 0}
    IN  IF nz = {} THEN <<>>
        ELSE SubSeq(a, 1, CHOOSE i \in nz : \A j \in nz : j <= i)

RECURSIVE BigOfNat(_)
BigOfNat(n) ==
    IF n = 0 THEN <<>> ELSE <<n % LimbBase>> \o BigOfNat(n \div LimbBase)

RECURSIVE BigAddLoop(_, _, _)
BigAddLoop(a, b, carry) ==
    IF a = <<>> /\ b = <<>> THEN (IF carry = 0 THEN <<>> ELSE <<carry>>)
    ELSE LET x == IF a = <<>> THEN 0 ELSE Head(a)
             y == IF b = <<>> THEN 0 ELSE Head(b)
             s == x + y + carry
         IN  <<s % LimbBase>> \o BigAddLoop(IF a = <<>> THEN <<>> ELSE Tail(a),
                                            IF b = <<>> THEN <<>> ELSE Tail(b),
                                            s \div LimbBase)

BigAdd(a, b) == BigAddLoop(a, b, 0)

\* The limbs lo..hi of a * k + carry and the carry out of them, for
\* 0 <= carry < k < LimbBase; the range is halved so that the nesting stays
\* logarithmic in the length.
RECURSIVE BigTimesSmallRange(_, _, _, _, _)
RECURSIVE BigTimesSmallUpper(_, _, _, _, _)
BigTimesSmallRange(a, k, lo, hi, carry) ==
    IF lo > hi THEN [q |-> <<>>, r |-> carry]
    ELSE IF lo = hi
    THEN [q |-> <<(a[lo] * k + carry) % LimbBase>>, r |-> (a[lo] * k + carry) \div LimbBase]
    ELSE BigTimesSmallUpper(a, k, (lo + hi) \div 2 + 1, hi,
                            BigTimesSmallRange(a, k, lo, (lo + hi) \div 2, carry))

BigJoinUpper(lowq, up) == [q |-> lowq \o up.q, r |-> up.r]

\* The test makes the lower half be computed before the upper half starts.
BigTimesSmallUpper(a, k, lo, hi, low) ==
    IF low.r = 0 THEN BigJoinUpper(low.q, BigTimesSmallRange(a, k, lo, hi, 0))
    ELSE BigJoinUpper(low.q, BigTimesSmallRange(a, k, lo, hi, low.r))

BigWithCarry(res) == IF res.r = 0 THEN res.q ELSE Append(res.q, res.r)

BigTimesSmall(a, k) ==
    IF k = 0 THEN <<>> ELSE BigWithCarry(BigTimesSmallRange(a, k, 1, Len(a), 0))

\* The limbs lo..hi of floor((r * LimbBase^hi + a[1..hi]) / d) and the remainder
\* left below them, for 0 <= r < d < LimbBase; halved like the product.
RECURSIVE BigDivSmallRange(_, _, _, _, _)
RECURSIVE BigDivSmallLower(_, _, _, _, _)
BigDivSmallRange(a, d, lo, hi, r) ==
    IF lo > hi THEN [q |-> <<>>, r |-> r]
    ELSE IF lo = hi
    THEN [q |-> <<(r * LimbBase + a[lo]) \div d>>, r |-> (r * LimbBase + a[lo]) % d]
    ELSE BigDivSmallLower(a, d, lo, (lo + hi) \div 2,
                          BigDivSmallRange(a, d, (lo + hi) \div 2 + 1, hi, r))

BigJoinLower(upq, low) == [q |-> low.q \o upq, r |-> low.r]

\* The test makes the upper half be computed before the lower half starts.
BigDivSmallLower(a, d, lo, hi, up) ==
    IF up.r = 0 THEN BigJoinLower(up.q, BigDivSmallRange(a, d, lo, hi, 0))
    ELSE BigJoinLower(up.q, BigDivSmallRange(a, d, lo, hi, up.r))

BigTrimQuotient(res) == [q |-> BigTrim(res.q), r |-> res.r]

\* floor(a / d) and the remainder, for 0 < d < LimbBase.
BigDivSmall(a, d) == BigTrimQuotient(BigDivSmallRange(a, d, 1, Len(a), 0))

\* Bit i (bit 0 is the lowest) of a.
BitAt(a, i) ==
    IF i < 0 \/ i \div LimbBits + 1 > Len(a) THEN 0
    ELSE (a[i \div LimbBits + 1] \div (2 ^ (i % LimbBits))) % 2

BitLen(a) ==
    IF a = <<>> THEN 0
    ELSE LimbBits * (Len(a) - 1)
         + (CHOOSE k \in 1..LimbBits : 2 ^ (k - 1) <= a[Len(a)] /\ a[Len(a)] < 2 ^ k)

\* Is any of the bits 0 .. k-1 of a set?
LowBitsAny(a, k) == \E i \in 0..(k - 1) : BitAt(a, i) = 1

\* floor(a / 2^k)
BigShiftRight(a, k) ==
    LET w == k \div LimbBits
        r == k % LimbBits
        c == Drop(a, w)
    IN  BigTrim([j \in 1..Len(c) |->
                    (c[j] \div (2 ^ r))
                    + (IF j < Len(c) THEN (c[j + 1] % (2 ^ r)) * (2 ^ (LimbBits - r))
                       ELSE 0)])

\* a * 2^k
BigShiftLeft(a, k) ==
    LET w == k \div LimbBits
        r == k % LimbBits
    IN  IF a = <<>> THEN <<>>
        ELSE [j \in 1..w |-> 0]
             \o BigTrim([j \in 1..(Len(a) + 1) |->
                    (IF j <= Len(a) THEN (a[j] * (2 ^ r)) % LimbBase ELSE 0)
                    + (IF j > 1 THEN a[j - 1] \div (2 ^ (LimbBits - r)) ELSE 0)])

\* b / 2^cut (with `sticky' saying that a nonzero fraction was already cut off
\* below b) rounded to the nearest integer, ties to even, for cut >= 1.
RoundKept(b, sticky, cut, kept) ==
    IF BitAt(b, cut - 1) = 1
       /\ (sticky \/ LowBitsAny(b, cut - 1) \/ BitAt(kept, 0) = 1)
    THEN BigAdd(kept, <<1>>)
    ELSE kept

RoundCut(b, sticky, cut) == RoundKept(b, sticky, cut, BigShiftRight(b, cut))

\* Round-to-nearest, ties-to-even, of the natural number b >= 1 (with `sticky'
\* saying that a nonzero fraction was already cut off below it) to MantissaBits
\* bits: [m, shift] with b ~ m * 2^shift.
RoundCarry(r, cut) ==
    IF BitLen(r) > MantissaBits
    THEN [m |-> BigShiftRight(r, 1), shift |-> cut + 1]
    ELSE [m |-> r, shift |-> cut]

RoundBig(b, sticky) ==
    IF BitLen(b) <= MantissaBits
    THEN [m |-> BigShiftLeft(b, MantissaBits - BitLen(b)),
          shift |-> BitLen(b) - MantissaBits]
    ELSE RoundCarry(RoundCut(b, sticky, BitLen(b) - MantissaBits),
                    BitLen(b) - MantissaBits)

\* +0.0, which is also what a zero literal behind a minus sign gives: the
\* minus is applied as 0 - node.operand.n, and 0 - 0.0 is +0.0.
FloatZero == [kind |-> "fin", neg |-> FALSE, m |-> <<>>, e |-> 0]

FloatInf(neg) == [kind |-> "inf", neg |-> neg, m |-> <<>>, e |-> 0]

\* floor(b / 10^n), and whether a remainder was dropped (`sticky' says that
\* one was dropped before); n is halved down to steps of at most four digits.
RECURSIVE DivPow10(_, _, _)
RECURSIVE DivPow10Rest(_, _)
DivPow10Step(d, sticky) == [q |-> d.q, sticky |-> sticky \/ d.r # 0]

DivPow10(b, n, sticky) ==
    IF n = 0 THEN [q |-> b, sticky |-> sticky]
    ELSE IF n <= 4 THEN DivPow10Step(BigDivSmall(b, 10 ^ n), sticky)
    ELSE DivPow10Rest(DivPow10(b, n \div 2, sticky), n - n \div 2)

DivPow10Rest(h, n) ==
    IF h.sticky THEN DivPow10(h.q, n, TRUE) ELSE DivPow10(h.q, n, FALSE)

\* b * 10^n
RECURSIVE TimesPow10(_, _)
RECURSIVE TimesPow10Rest(_, _)
TimesPow10(b, n) ==
    IF n <= 4 THEN BigTimesSmall(b, 10 ^ n)
    ELSE TimesPow10Rest(TimesPow10(b, n \div 2), n - n \div 2)

TimesPow10Rest(h, n) == IF h = <<>> THEN <<>> ELSE TimesPow10(h, n)

\* The exponents of the smallest subnormal and of the largest finite binary64,
\* as exponents of an integer mantissa.
MinExponent == -1074

MaxExponent == 971

\* The binary64 nearest to b * 2^(-scale) (b >= 1, `sticky' as in RoundBig):
\* infinity on overflow, and below the normal range a multiple of
\* 2^MinExponent.  The mantissa is kept normalized in all cases.
FloatSubnormal(neg, sub) ==
    IF sub = <<>> THEN FloatZero
    ELSE [kind |-> "fin", neg |-> neg,
          m |-> BigShiftLeft(sub, MantissaBits - BitLen(sub)),
          e |-> MinExponent - (MantissaBits - BitLen(sub))]

FloatOfRounded(neg, b, sticky, scale, r) ==
    IF r.shift - scale > MaxExponent THEN FloatInf(neg)
    ELSE IF r.shift - scale >= MinExponent
    THEN [kind |-> "fin", neg |-> neg, m |-> r.m, e |-> r.shift - scale]
    ELSE FloatSubnormal(neg, RoundCut(b, sticky, MinExponent + scale))

FloatOfScaled(neg, b, sticky, scale) ==
    FloatOfRounded(neg, b, sticky, scale, RoundBig(b, sticky))

\* A scale for which a * 2^scale / 10^n has more than MantissaBits + 1 bits
\* whatever a >= 1 is: 10^3 < 2^10, so 10^n < 2^(10n/3 + 1).
ScaleFor(n) == (10 * n) \div 3 + MantissaBits + 3

FloatOfQuotient(neg, d, scale) == FloatOfScaled(neg, d.q, d.sticky, scale)

\* The binary64 nearest to b / 10^n for the natural number b (a Big); a
\* negative n stands for b * 10^(-n).  `neg' says that the literal stands
\* behind a minus sign, which parse folds into node.n as 0 - node.n.
FloatOfBig(neg, b, n) ==
    IF b = <<>> THEN FloatZero
    ELSE IF 3 * (0 - n) >= MaxExponent + MantissaBits
    THEN FloatInf(neg)     \* b * 10^(-n) > 2^(-3n) >= 2^1024
    ELSE IF 3 * n >= BitLen(b) + 1 - MinExponent
    THEN FloatZero    \* b / 10^n < 2^BitLen(b) / 2^(3n) <= 2^(-1075)
    ELSE FloatOfQuotient(neg,
                         IF n <= 0
                         THEN [q |-> TimesPow10(b, 0 - n), sticky |-> FALSE]
                         ELSE DivPow10(BigShiftLeft(b, ScaleFor(n)), n, FALSE),
                         IF n <= 0 THEN 0 ELSE ScaleFor(n))

\* node.n as parse gives it for the decimal literal a / 10^n: the nearest
\* binary64, and 0 minus it when the literal stands behind a minus sign.
FloatOfDecimal(neg, a, n) == FloatOfBig(neg, BigOfNat(a), n)

RECURSIVE DecDigitsText(_)
DecDigitsText(dec) ==
    IF dec = <<>> THEN ""
    ELSE IF Len(dec) = 1 THEN ToString(dec[1])
    ELSE DecDigitsText(SubSeq(dec, 1, Len(dec) \div 2))
         \o DecDigitsText(SubSeq(dec, Len(dec) \div 2 + 1, Len(dec)))

(***************************************************************************)
(* str(float): the shortest decimal digit string that converts back to the *)
(* same binary64 (the nearest to it when there are several), written the   *)
(* way Python's float.__repr__ writes it.                                  *)
(***************************************************************************)
\* floor(m * 2^e / 10^p) and whether a remainder was dropped.
FloorCut(d, cut) ==
    [q |-> BigShiftRight(d.q, cut), sticky |-> d.sticky \/ LowBitsAny(d.q, cut)]

FloorWhole(whole, p, cut) ==
    FloorCut(IF p >= 0 THEN DivPow10(whole, p, FALSE)
             ELSE [q |-> TimesPow10(whole, 0 - p), sticky |-> FALSE],
             cut)

FloorScaled(m, e, p) ==
    FloorWhole(IF e >= 0 THEN BigShiftLeft(m, e) ELSE m, p, IF e >= 0 THEN 0 ELSE 0 - e)

\* Decimal digits (big-endian) of a Big, in chunks of four digits.
FourDigits(r) == <<r \div 1000, (r \div 100) % 10, (r \div 10) % 10, r % 10>>

Zeros(n) == [i \in 1..n |-> 0]

\* The lowest 4k digits of t (k >= 1): those of floor(t / 10^(4h)) above the
\* lowest 4h of t, h being half of k.
RECURSIVE DecRange(_, _)
DecRange(t, k) ==
    IF t = <<>> THEN Zeros(4 * k)
    ELSE IF k = 1 THEN FourDigits(BigDivSmall(t, 10000).r)
    ELSE DecRange(DivPow10(t, 4 * (k \div 2), FALSE).q, k - k \div 2)
         \o DecRange(t, k \div 2)

StripLeadingZeros(dec) ==
    LET nz == {i \in 1..Len(dec) : dec[i] # 0}
    IN  IF nz = {} THEN <<>>
        ELSE SubSeq(dec, CHOOSE i \in nz : \A j \in nz : i <= j, Len(dec))

\* a has at most BitLen(a) * 30103 / 100000 + 1 digits.
BigToDec(a) ==
    StripLeadingZeros(DecRange(a, ((BitLen(a) * 30103) \div 100000) \div 4 + 1))

\* The k with 10^(k-1) <= x < 10^k, for a finite x > 0: 2^(e+52) <= x, and
\* 30103 / 100000 is just above log10(2), so the estimate is at most one off;
\* the digits of floor(x / 10^(estimate - 17)) settle it.
MaxReprDigits == 17

ExponentEstimate(x) == ((x.e + MantissaBits - 1) * 30103) \div 100000 + 1

DecimalExponent(x) ==
    ExponentEstimate(x)
    + Len(BigToDec(FloorScaled(x.m, x.e, ExponentEstimate(x) - MaxReprDigits).q))
    - MaxReprDigits

\* Does the decimal c * 10^p convert to the magnitude of x?
RoundTrips(x, c, p) == FloatOfBig(FALSE, c, 0 - p) = [x EXCEPT !.neg = FALSE]

\* The d-digit decimal for x (with 10^(k-1) <= x < 10^k): of the two d-digit
\* neighbours of x, the one that converts back to x, the nearer one (the even
\* one on a tie) if both do.  none says that neither does.
DigitsPick(f, nb, ok) ==
    [none |-> ~ok[1] /\ ~ok[2],
     c |-> IF ok[1] /\ ok[2]
           THEN (IF BitAt(f.q, 0) = 1 /\ (f.sticky \/ BitAt(nb[1], 0) = 1)
                 THEN nb[2] ELSE nb[1])
           ELSE IF ok[2] THEN nb[2] ELSE nb[1]]

DigitsNear(x, p, f, nb) ==
    DigitsPick(f, nb, [i \in 1..2 |-> RoundTrips(x, nb[i], p)])

Neighbours(lo) == <<lo, BigAdd(lo, <<1>>)>>

DigitsFrom(x, p, f) == DigitsNear(x, p, f, Neighbours(BigShiftRight(f.q, 1)))

DigitsAt(x, k, d) == DigitsFrom(x, k - d, FloorScaled(x.m, x.e + 1, k - d))

\* The least number of digits with which x converts back, given for each
\* number of digits what DigitsAt finds; MaxReprDigits digits always do.
ShortestLen(found) ==
    CHOOSE d \in 1..MaxReprDigits :
        /\ d = MaxReprDigits \/ ~found[d].none
        /\ \A j \in 1..(d - 1) : found[j].none

ShortestAt(found, k, d) == [c |-> found[d].c, p |-> k - d]

ShortestOf(found, k) == ShortestAt(found, k, ShortestLen(found))

StripZeros(dec) ==
    LET nz == {i \in 1..Len(dec) : dec[i] # 0}
    IN  SubSeq(dec, 1, CHOOSE i \in nz : \A j \in nz : j <= i)

\* [digits, decpt]: x = 0.digits * 10^decpt with the shortest digits.
DigitsRecord(dec, p) == [digits |-> StripZeros(dec), decpt |-> p + Len(dec)]

ShortestDigitsOf(s) == DigitsRecord(BigToDec(s.c), s.p)

ShortestIn(x, k) ==
    ShortestDigitsOf(ShortestOf([d \in 1..MaxReprDigits |-> DigitsAt(x, k, d)], k))

ShortestDigits(x) == ShortestIn(x, DecimalExponent(x))

ExponentText(n) ==
    (IF n < 0 THEN "-" ELSE "+")
    \o (IF n > -10 /\ n < 10 THEN "0" ELSE "")
    \o ToString(IF n < 0 THEN 0 - n ELSE n)

\* The digits laid out as repr lays them out: exponent notation when
\* decpt <= -4 or decpt > 16; `dot0' is the ".0" a float gets when the
\* fixed notation has no fraction.
ReprLayout(s, dot0) ==
    IF s.decpt <= -4 \/ s.decpt > 16
    THEN DecDigitsText(<<Head(s.digits)>>)
         \o (IF Len(s.digits) > 1 THEN "." \o DecDigitsText(Tail(s.digits)) ELSE "")
         \o "e" \o ExponentText(s.decpt - 1)
    ELSE IF s.decpt <= 0
    THEN "0." \o DecDigitsText(Zeros(0 - s.decpt) \o s.digits)
    ELSE IF s.decpt >= Len(s.digits)
    THEN DecDigitsText(s.digits \o Zeros(s.decpt - Len(s.digits))) \o dot0
    ELSE DecDigitsText(SubSeq(s.digits, 1, s.decpt)) \o "."
         \o DecDigitsText(SubSeq(s.digits, s.decpt + 1, Len(s.digits)))

FloatReprWith(x, dot0) ==
    (IF x.neg THEN "-" ELSE "")
    \o (IF x.kind = "inf" THEN "inf"
        ELSE IF x.m = <<>> THEN "0" \o dot0
        ELSE ReprLayout(ShortestDigits(x), dot0))

\* str(x) of the float x; with `complex', str(z) of the complex 0 + x j.
NumRepr(x, complex) ==
    FloatReprWith(x, IF complex THEN "" ELSE ".0") \o (IF complex THEN "j" ELSE "")

\* num % 1 != 0  (inf % 1 is nan, and nan != 0)
HasFraction(x) ==
    IF x.kind = "inf" THEN TRUE
    ELSE x.e < 0 /\ LowBitsAny(x.m, 0 - x.e)

\* num *= 10
FloatTimes10(x) ==
    IF x.kind = "inf" \/ x.m = <<>> THEN x
    ELSE LET r == RoundBig(BigTimesSmall(x.m, 10), FALSE)
         IN  IF x.e + r.shift > MaxExponent THEN FloatInf(x.neg)
             ELSE [kind |-> "fin", neg |-> x.neg, m |-> r.m, e |-> x.e + r.shift]

DecText(dec) == IF dec = <<>> THEN "0" ELSE DecDigitsText(dec)

\* "{0:.0f}".format(num): the float rounded to an integer, ties to even.
FormatF0(x) ==
    IF x.kind = "inf" THEN (IF x.neg THEN "-inf" ELSE "inf")
    ELSE LET whole == IF x.e >= 0 THEN BigShiftLeft(x.m, x.e)
                      ELSE BigShiftRight(x.m, 0 - x.e)
             guard == x.e < 0 /\ BitAt(x.m, 0 - x.e - 1) = 1
             below == x.e < 0 /\ LowBitsAny(x.m, 0 - x.e - 1)
             up    == guard /\ (below \/ BitAt(whole, 0) = 1)
             int   == IF up THEN BigAdd(whole, <<1>>) ELSE whole
         IN  (IF x.neg THEN "-" ELSE "") \o DecText(BigToDec(int))

(***************************************************************************)
(* Python int values that may exceed the checker's integers: Dec.          *)
(***************************************************************************)
DecOne == <<1>>

DecTimes10(d) == Append(d, 0)

DecLess(a, b) ==
    \/ Len(a) < Len(b)
    \/ /\ Len(a) = Len(b)
       /\ \E i \in 1..Len(a) :
             /\ a[i] < b[i]
             /\ \A j \in 1..(i - 1) : a[j] = b[j]

\* DECIMAL_DIVISOR = 10000000000
DECIMAL_DIVISOR == <<1, 0, 0, 0, 0, 0, 0, 0, 0, 0, 0>>

(***************************************************************************)
(* parseFixed10Const.  ScaleLoop is its while loop; iters counts the       *)
(* iterations taken.                                                       *)
(***************************************************************************)
\* num % 1 != 0 and divisor < DECIMAL_DIVISOR
ScaleLoopGuard(num, divisor) ==
    HasFraction(num) /\ DecLess(divisor, DECIMAL_DIVISOR)

RECURSIVE ScaleLoop(_, _, _)
ScaleLoop(num, divisor, iters) ==
    IF ScaleLoopGuard(num, divisor)
    THEN ScaleLoop(FloatTimes10(num), DecTimes10(divisor), iters + 1)
    ELSE [num |-> num, divisor |-> divisor, iters |-> iters]

parseFixed10Const(n) ==
    IF n.ntype = "complex"
    THEN Raise("TypeError")   \* num % 1 on a complex
    ELSE LET r == ScaleLoop(n.n, DecOne, 0)
         IN  Ok("%fixed10(" \o FormatF0(r.num) \o ", " \o DecText(r.divisor) \o ")")

(***************************************************************************)
(* parseConst.                                                             *)
(***************************************************************************)
parseConst(lines, n) ==
    IF n.t = "Num" /\ n.ntype = "int"
    THEN LET hexFormat == get_original_if_0x_prefixed(lines, n)
         IN  IF hexFormat.isNone
             THEN Ok(ToString(n.n))
             ELSE Ok("%hex(\"" \o JoinChars(Drop(hexFormat.s, 2)) \o "\")")
    ELSE IF n.t = "Num"    \* type(node.n == float) is a type object: always true
    THEN parseFixed10Const(n)
    ELSE IF n.t = "Str"
    THEN Ok("\"" \o n.s \o "\"")
    ELSE IF n.t = "NameConstant"
    THEN CASE n.value = "True"  -> Ok("true")
           [] n.value = "False" -> Ok("false")
           [] OTHER             -> Raise("KeyError")
    ELSE Raise("ParserException")

(***************************************************************************)
(* Text building.  Fmt models str.format and string concatenation: the     *)
(* pieces are evaluated left to right and the first exception propagates.  *)
(***************************************************************************)
RECURSIVE Fmt(_)
Fmt(parts) ==
    IF parts = <<>> THEN Ok("")
    ELSE IF Head(parts).exc # "" THEN Raise(Head(parts).exc)
    ELSE LET rest == Fmt(Tail(parts))
         IN  IF rest.exc # "" THEN rest ELSE Ok(Head(parts).text \o rest.text)

\* parseList, given the results of parseElement on the nodes in order.
RECURSIVE parseListLoop(_, _, _, _)
parseListLoop(results, i, separator, initSeparator) ==
    IF i > Len(results) THEN Ok("")
    ELSE Fmt(<<Ok(IF i = 1 THEN initSeparator ELSE separator), results[i],
               parseListLoop(results, i + 1, separator, initSeparator)>>)

parseList(results, separator, initSeparator, emptyCase) ==
    LET rez == parseListLoop(results, 1, separator, initSeparator)
    IN  IF rez.exc # "" THEN rez
        ELSE IF rez.text # "" THEN rez ELSE Ok(emptyCase)

\* node.id: only a Name has it.
IdOf(n) == IF n.t = "Name" THEN Ok(n.id) ELSE Raise("AttributeError")

(***************************************************************************)
(* Types.                                                                  *)
(***************************************************************************)
parseBaseType(name) ==
    IF name.t = "Name" THEN Ok("%" \o name.id) ELSE Raise("ParserException")

unitOpMap(o) ==
    CASE o = "Mult" -> Ok("%umul")
      [] o = "Div"  -> Ok("%udiv")
      [] o = "Pow"  -> Ok("%upow")
      [] OTHER      -> Raise("KeyError")

\* "{}".format(node.n): str of the int, float or complex of a Num node (the
\* n of a complex literal is its imaginary part; its real part is 0).
NumStr(n) ==
    IF n.ntype = "int" THEN ToString(n.n)
    ELSE NumRepr(n.n, n.ntype = "complex")

RECURSIVE parseUnit(_)
parseUnit(n) ==
    IF n.t = "Name" THEN Ok("%" \o n.id)
    ELSE IF n.t = "Num"
    THEN Ok(NumStr(n))
    ELSE IF n.t = "BinOp"
    THEN Fmt(<<unitOpMap(n.op), Ok("("), parseUnit(n.left), Ok(", "),
               parseUnit(n.right), Ok(")")>>)
    ELSE Raise("ParserException")

RECURSIVE parseType(_, _)
RECURSIVE parseVarDecls(_, _)

parseVarDecl2(lines, key, value) ==
    Fmt(<<Ok("%vdecl("), IdOf(key), Ok(", "), parseType(lines, value), Ok(")")>>)

parseVarDecl(lines, stmt) == parseVarDecl2(lines, stmt.target, stmt.annotation)

parseVarDecls(lines, dict) ==
    LET decls == [i \in 1..Len(dict.keys) |->
                     parseVarDecl2(lines, dict.keys[i], dict.values[i])]
    IN  parseList(decls, " ", "", "")

parseType(lines, n) ==
    IF n.t = "None" THEN Ok("%void")
    ELSE IF n.t = "Name" THEN parseBaseType(n)
    ELSE IF n.t = "Compare" /\ n.left.t = "Name" /\ n.left.id = "bytes"
    THEN (IF n.comparators[1].t = "Num"
          THEN Ok("%bytesT(" \o NumStr(n.comparators[1]) \o ")")
          ELSE Raise("AttributeError"))
    ELSE IF n.t = "Subscript"
    THEN (IF n.slice.t # "Index" THEN Raise("AttributeError")
          ELSE IF n.slice.value.t = "Num"
          THEN Fmt(<<Ok("%listT("), parseType(lines, n.value), Ok(", "),
                     parseConst(lines, n.slice.value), Ok(")")>>)
          ELSE Fmt(<<Ok("%mapT("), parseType(lines, n.value), Ok(", "),
                     parseType(lines, n.slice.value), Ok(")")>>))
    ELSE IF n.t = "Dict" THEN Fmt(<<Ok("%structT("), parseVarDecls(lines, n), Ok(")")>>)
    ELSE IF n.t = "Call"
    THEN (IF n.args = <<>> THEN Raise("IndexError")
          ELSE LET last == n.args[Len(n.args)]
                   positional == IF last.t = "Name" /\ last.id = "positional"
                                 THEN "true" ELSE "false"
               IN  Fmt(<<Ok("%unitT("), parseType(lines, n.func), Ok(", "),
                         parseUnit(n.args[1]), Ok(", " \o positional \o ")")>>))
    ELSE Raise("ParserException")

(***************************************************************************)
(* Operator tables.  An operator node (ast.Add, ast.Is, ...) is the name   *)
(* of its class.  The messages of the ParserExceptions of parseCompareOp,  *)
(* parseBoolOp and parseUnaryOp read op.lineno, which operator nodes do    *)
(* not have: building the message raises AttributeError.                   *)
(***************************************************************************)
BinOps ==
    {"Add", "BitAnd", "BitOr", "BitXor", "Div", "FloorDiv", "LShift", "MatMult",
     "Mod", "Mult", "Pow", "RShift", "Sub"}

parseBinOp(o) ==
    CASE o = "Add"      -> Ok("+")
      [] o = "BitAnd"   -> Ok("&")
      [] o = "BitOr"    -> Ok("|")
      [] o = "BitXor"   -> Ok("^")
      [] o = "Div"      -> Ok("/")
      [] o = "FloorDiv" -> Ok("//")
      [] o = "LShift"   -> Ok("<<")
      [] o = "MatMult"  -> Ok("@")
      [] o = "Mod"      -> Ok("%")
      [] o = "Mult"     -> Ok("*")
      [] o = "Pow"      -> Ok("**")
      [] o = "RShift"   -> Ok(">>")
      [] o = "Sub"      -> Ok("-")
      [] OTHER          -> Raise("KeyError")

parseCompareOp(o) ==
    CASE o = "Eq"    -> Ok("%eq")
      [] o = "Gt"    -> Ok("%gt")
      [] o = "GtE"   -> Ok("%ge")
      [] o = "In"    -> Ok("%in")
      [] o = "Lt"    -> Ok("%lt")
      [] o = "LtE"   -> Ok("%le")
      [] o = "NotEq" -> Ok("%ne")
      [] o \in {"Is", "IsNot", "NotIn"} -> Raise("AttributeError")
      [] OTHER       -> Raise("KeyError")

parseBoolOp(o) ==
    CASE o = "And" -> Ok("%and")
      [] o = "Or"  -> Ok("%or")
      [] OTHER     -> Raise("KeyError")

parseUnaryOp(o) ==
    CASE o = "Not"  -> Ok("%not")
      [] o = "USub" -> Ok("%neg")
      [] o \in {"Invert", "UAdd"} -> Raise("AttributeError")
      [] OTHER      -> Raise("KeyError")

(***************************************************************************)
(* Reserved properties.                                                    *)
(***************************************************************************)
optionsMap ==
    [msg   |-> {"sender", "value", "gas"},
     block |-> {"difficulty", "timestamp", "coinbase", "number", "prevhash"},
     tx    |-> {"origin"}]

tryParseReservedExprAnyAttr(expr) ==
    [isNone |-> FALSE, text |-> "%" \o expr.value.id \o "." \o expr.attr]

\* Called with an Attribute whose value is a Name; isNone stands for None.
tryParseReservedExpr(expr) ==
    IF expr.value.id \in DOMAIN optionsMap /\ expr.attr \in optionsMap[expr.value.id]
    THEN [isNone |-> FALSE, text |-> "%" \o expr.value.id \o "." \o expr.attr]
    ELSE [isNone |-> TRUE, text |-> ""]

(***************************************************************************)
(* Variables and expressions.                                              *)
(***************************************************************************)
RECURSIVE parseVar(_, _)
RECURSIVE parseExpr(_, _)

parseExprsCommaSeparated(lines, exprs, separator) ==
    parseList([i \in 1..Len(exprs) |-> parseExpr(lines, exprs[i])], ", ", "", "")

parseExprs(lines, exprs, separator) ==
    parseList([i \in 1..Len(exprs) |-> parseExpr(lines, exprs[i])], separator, "", "")

\* parseVar without the storage-variable case.
parseVarNoStorage(lines, var) ==
    IF var.t = "Name" THEN Ok("%var(" \o var.id \o ")")
    ELSE IF var.t = "Index" THEN parseVar(lines, var.value)
    ELSE IF var.t = "Attribute"
    THEN Fmt(<<Ok("%attribute("), parseVar(lines, var.value),
               Ok(", " \o var.attr \o ")")>>)
    ELSE IF var.t = "Subscript"
    THEN Fmt(<<Ok("%subscript("), parseVar(lines, var.value), Ok(", "),
               parseExpr(lines, var.slice), Ok(")")>>)
    ELSE Raise("ParserException")

parseVar(lines, var) ==
    IF var.t = "Name" THEN Ok("%var(" \o var.id \o ")")
    ELSE IF var.t = "Index" THEN parseVar(lines, var.value)
    ELSE IF var.t = "Attribute"
    THEN (IF var.value.t = "Name" /\ var.value.id = "self"
          THEN Ok("%svar(" \o var.attr \o ")")
          ELSE Fmt(<<Ok("%attribute("), parseVar(lines, var.value),
                     Ok(", " \o var.attr \o ")")>>))
    ELSE IF var.t = "Subscript"
    THEN Fmt(<<Ok("%subscript("), parseVar(lines, var.value), Ok(", "),
               parseExpr(lines, var.slice), Ok(")")>>)
    ELSE Raise("ParserException")

\* expr.args[1].s if it is a Str, else expr.args[1].id
WeiUnitOf(a) ==
    IF a.t = "Str" THEN Ok(a.s) ELSE IdOf(a)

\* Called with a Call whose func is a Name.
parseCallExpr(lines, expr) ==
    IF Len(expr.keywords) # 0 THEN Raise("ParserException")
    ELSE IF expr.func.id = "as_wei_value"
    THEN (IF Len(expr.args) < 2
          THEN (IF expr.args = <<>> THEN Raise("IndexError")
                ELSE Fmt(<<parseExpr(lines, expr.args[1]), Raise("IndexError")>>))
          ELSE Fmt(<<Ok("%as_wei_value("), parseExpr(lines, expr.args[1]), Ok(", "),
                     WeiUnitOf(expr.args[2]), Ok(")")>>))
    ELSE Fmt(<<Ok("%" \o expr.func.id \o "("), parseExprs(lines, expr.args, ", "),
               Ok(")")>>)

\* The message of the chained-comparison ParserException reads
\* inputLines[node.lineno], the line after the node's (lineno counts from 1).
ComplexComparatorFault(lines, n) ==
    IF n.lineno + 1 > Len(lines) THEN Raise("IndexError") ELSE Raise("ParserException")

parseExpr(lines, n) ==
    IF n.t = "Index" THEN parseExpr(lines, n.value)
    ELSE IF n.t \in {"Num", "Str", "NameConstant"}
            \/ (n.t = "Name" /\ n.id \in {"true", "false"})
    THEN parseConst(lines, n)
    ELSE IF n.t = "Name" /\ n.id = "self" THEN Ok("%self")
    ELSE IF n.t = "BinOp"
    THEN Fmt(<<Ok("%binop("), parseBinOp(n.op), Ok(", "), parseExpr(lines, n.left),
               Ok(", "), parseExpr(lines, n.right), Ok(")")>>)
    ELSE IF n.t = "Compare"
    THEN (IF Len(n.ops) > 1 \/ Len(n.comparators) > 1
          THEN ComplexComparatorFault(lines, n)
          ELSE Fmt(<<Ok("%compareop("), parseCompareOp(n.ops[1]), Ok(", "),
                     parseExpr(lines, n.left), Ok(", "),
                     parseExpr(lines, n.comparators[1]), Ok(")")>>))
    ELSE IF n.t = "BoolOp"
    THEN Fmt(<<Ok("%boolop("), parseBoolOp(n.op), Ok(", "),
               parseExpr(lines, n.values[1]), Ok(", "),
               parseExpr(lines, n.values[2]), Ok(")")>>)
    ELSE IF n.t = "UnaryOp"
    THEN Fmt(<<Ok("%unaryop("), parseUnaryOp(n.op), Ok(", "),
               parseExpr(lines, n.operand), Ok(")")>>)
    ELSE IF n.t = "Attribute" /\ n.value.t = "Name"
    THEN LET rez == tryParseReservedExpr(n)
         IN  IF ~rez.isNone THEN Ok(rez.text) ELSE parseVar(lines, n)
    ELSE IF n.t \in {"Name", "Subscript", "Attribute"} THEN parseVar(lines, n)
    ELSE IF n.t = "List"
    THEN Fmt(<<Ok("%list("), parseExprs(lines, n.elts, " "), Ok(")")>>)
    ELSE IF n.t = "Call" /\ n.func.t = "Name" THEN parseCallExpr(lines, n)
    ELSE IF n.t = "Call" /\ n.func.t = "Attribute" /\ n.func.value.t = "Name"
            /\ n.func.value.id = "self"
    THEN Fmt(<<Ok("%icall(" \o n.func.attr \o ", "), parseExprs(lines, n.args, " "),
               Ok(")")>>)
    ELSE Raise("ParserException")

(***************************************************************************)
(* Statements.  The statement translator reads and writes the global       *)
(* stmtsIndent, so its functions take the value of stmtsIndent at the call *)
(* and return [exc, text, indent, log]: indent is the value of stmtsIndent *)
(* when the call returns or raises.  log is a history of the parseStmts    *)
(* calls that returned: for each, the indentation of the enclosing block   *)
(* (encl, TopLevel for a function body), stmtsIndent at entry, the         *)
(* indentation put before each statement of the block (used) and           *)
(* stmtsIndent at return (exit).                                           *)
(***************************************************************************)
TopLevel == "top"

SRes(exc, text, indent, log) ==
    [exc |-> exc, text |-> text, indent |-> indent, log |-> log]

\* The result of an expression-level translation inside a statement.
Lift(r, indent) == SRes(r.exc, r.text, indent, <<>>)

\* parts evaluated left to right, each already given the indent left by the
\* one before it; the first exception propagates with the indent it left.
RECURSIVE SFmt(_, _)
SFmt(parts, indent) ==
    IF parts = <<>> THEN SRes("", "", indent, <<>>)
    ELSE IF Head(parts).exc # ""
    THEN SRes(Head(parts).exc, "", Head(parts).indent, Head(parts).log)
    ELSE LET rest == SFmt(Tail(parts), Head(parts).indent)
         IN  SRes(rest.exc,
                  IF rest.exc # "" THEN "" ELSE Head(parts).text \o rest.text,
                  rest.indent, Head(parts).log \o rest.log)

\* head, then a statement block, then the closing text.
Block(head, body, close, indent) ==
    SFmt(<<head, body, Lift(Ok(close), body.indent)>>, indent)

RECURSIVE parseStmt(_, _, _, _)
RECURSIVE parseStmts(_, _, _, _)

parseAugAssignOp(o) == Fmt(<<parseBinOp(o), Ok("=")>>)

KeepIndent(oldStmtsIndent, current) == current

\* stmtsIndent = oldStmtsIndent
RestoreIndent(oldStmtsIndent, current) == oldStmtsIndent

\* rez += separator; rez += parseElement(node), for the element result r and
\* the result rest of the iterations after it.
ListCons(sep, r, rest) ==
    SRes(rest.exc, IF rest.exc # "" THEN "" ELSE sep \o r.text \o rest.text,
         rest.indent, r.log \o rest.log)

\* The loop of parseList over a statement block: cur is stmtsIndent before
\* statement i, sep the separator evaluated when parseList was called.
RECURSIVE StmtsLoop(_, _, _, _, _, _)

\* The iterations from statement i on, r being the result of parseStmt on it.
StmtsFrom(lines, body, i, r, sep, used) ==
    IF r.exc # "" THEN r
    ELSE ListCons(sep, r, StmtsLoop(lines, body, i + 1, r.indent, sep, used))

StmtsLoop(lines, body, i, cur, sep, used) ==
    IF i > Len(body) THEN SRes("", "", cur, <<>>)
    ELSE StmtsFrom(lines, body, i, parseStmt(lines, body[i], cur, used), sep, used)

\* The end of parseStmts, rez being what parseList returned or raised.
StmtsReturn(rez, oldStmtsIndent, used, encl) ==
    IF rez.exc # "" THEN rez
    ELSE SRes("", rez.text, RestoreIndent(oldStmtsIndent, rez.indent),
              <<[encl |-> encl, entry |-> oldStmtsIndent, used |-> used,
                 exit |-> RestoreIndent(oldStmtsIndent, rez.indent)]>> \o rez.log)

parseStmts(lines, body, indent, encl) ==
    StmtsReturn(StmtsLoop(lines, body, 1, indent \o "  ", "\n" \o indent \o "  ",
                          indent \o "  "),
                indent, indent \o "  ", encl)

IsRangeCall(it) == it.t = "Call" /\ it.func.t = "Name" /\ it.func.id = "range"

\* node.iter.args[k] translated, for k counted from 0.
RangeArg(lines, it, k) ==
    IF Len(it.args) > k THEN parseExpr(lines, it.args[k + 1]) ELSE Raise("IndexError")

\* node.value.func.value.id of a call statement whose func is an Attribute.
FuncBaseId(func) == IdOf(func.value)

\* The text of a for statement before its body.
ForHead(lines, n) ==
    IF IsRangeCall(n.iter)
    THEN IF Len(n.iter.args) = 1
         THEN Fmt(<<Ok("%forrange("), IdOf(n.target), Ok(", "),
                    RangeArg(lines, n.iter, 0), Ok(",")>>)
         ELSE Fmt(<<Ok("%forrange("), IdOf(n.target), Ok(", "),
                    RangeArg(lines, n.iter, 0), Ok(", "),
                    RangeArg(lines, n.iter, 1), Ok(",")>>)
    ELSE Fmt(<<Ok("%forlist("), IdOf(n.target), Ok(", "),
               parseExpr(lines, n.iter), Ok(",")>>)

\* An if statement, given the results for its test and its body.
IfStmt(lines, n, test, body, indent, encl) ==
    IF Len(n.orelse) = 0 THEN Block(test, body, ")", indent)
    ELSE SFmt(<<test, body,
                Block(Lift(Ok(","), body.indent),
                      parseStmts(lines, n.orelse, body.indent, encl), ")",
                      body.indent)>>, indent)

parseStmt(lines, n, indent, encl) ==
    IF n.t = "AnnAssign" THEN Lift(parseVarDecl(lines, n), indent)
    ELSE IF n.t = "Assign"
    THEN Lift(Fmt(<<Ok("%assign("), parseVar(lines, n.targets[1]), Ok(", "),
                    parseExpr(lines, n.value), Ok(")")>>), indent)
    ELSE IF n.t = "AugAssign"
    THEN Lift(Fmt(<<Ok("%augassign("), parseAugAssignOp(n.op), Ok(", "),
                    parseVar(lines, n.target), Ok(", "),
                    parseExpr(lines, n.value), Ok(")")>>), indent)
    ELSE IF n.t = "If"
    THEN IfStmt(lines, n, Lift(Fmt(<<Ok("%if("), parseExpr(lines, n.test), Ok(",")>>),
                               indent),
                parseStmts(lines, n.body, indent, encl), indent, encl)
    ELSE IF n.t = "For"
    THEN Block(Lift(ForHead(lines, n), indent),
               parseStmts(lines, n.body, indent, encl), ")", indent)
    ELSE IF n.t = "Break" THEN Lift(Ok("%break"), indent)
    ELSE IF n.t = "Pass" THEN Lift(Ok("%pass"), indent)
    ELSE IF n.t = "Return"
    THEN (IF n.value.t = "None" THEN Lift(Ok("%return"), indent)
          ELSE Lift(Fmt(<<Ok("%return("), parseExpr(lines, n.value), Ok(")")>>), indent))
    ELSE IF n.t = "Assert"
    THEN Lift(Fmt(<<Ok("%assert("), parseExpr(lines, n.test), Ok(")")>>), indent)
    ELSE IF n.t = "Expr" /\ n.value.t = "Name" /\ n.value.id = "throw"
    THEN Lift(Ok("%throw"), indent)
    ELSE IF n.t = "Expr" /\ n.value.t = "Call"
    THEN LET func == n.value.func
         IN  IF func.t = "Attribute" /\ FuncBaseId(func).exc # ""
             THEN Lift(FuncBaseId(func), indent)
             ELSE IF func.t = "Attribute" /\ func.value.id = "log"
             THEN Lift(Fmt(<<Ok("%log(" \o func.attr \o ", "),
                             parseExprs(lines, n.value.args, " "), Ok(")")>>), indent)
             ELSE IF func.t = "Name" /\ func.id = "send"
             THEN Lift(Fmt(<<Ok("%send("), parseExprs(lines, n.value.args, ", "),
                             Ok(")")>>), indent)
             ELSE IF func.t = "Name" /\ func.id = "selfdestruct"
             THEN Lift(Fmt(<<Ok("%selfdestruct("),
                             parseExprs(lines, n.value.args, ", "), Ok(")")>>), indent)
             ELSE Lift(Raise("ParserException"), indent)
    ELSE Lift(Raise("ParserException"), indent)

(***************************************************************************)
(* Events, globals and function declarations.                              *)
(***************************************************************************)
parseEventParam(lines, key, value) ==
    IF value.t = "Call" /\ IdOf(value.func).exc # ""
    THEN Fmt(<<Ok("%eparam("), IdOf(key), IdOf(value.func)>>)
    ELSE IF value.t = "Call" /\ value.func.id = "indexed"
    THEN Fmt(<<Ok("%eparam("), IdOf(key), Ok(", "),
               IF value.args = <<>> THEN Raise("IndexError")
               ELSE parseType(lines, value.args[1]),
               Ok(", true)")>>)
    ELSE IF value.t = "Name"
    THEN Fmt(<<Ok("%eparam("), IdOf(key), Ok(", "), parseType(lines, value),
               Ok(", false)")>>)
    ELSE Fmt(<<IdOf(key), Raise("ParserException")>>)

parseEventParams(lines, n) ==
    IF n.t # "Dict" THEN Raise("AttributeError")
    ELSE parseList([i \in 1..Len(n.keys) |->
                       parseEventParam(lines, n.keys[i], n.values[i])], " ", "", "")

\* Called with an AnnAssign whose annotation is a Call.
parseEvent(lines, n) ==
    Fmt(<<Ok("  %event("), IdOf(n.target), Ok(", "),
          IF n.annotation.args = <<>> THEN Raise("IndexError")
          ELSE parseEventParams(lines, n.annotation.args[1]),
          Ok(")")>>)

parseGlobal(lines, n) ==
    IF n.annotation.t = "Call"
    THEN Fmt(<<Ok("  %svdecl("), IdOf(n.target), Ok(", "),
               IF n.annotation.args = <<>> THEN Raise("IndexError")
               ELSE parseType(lines, n.annotation.args[1]),
               Ok(", %"), IdOf(n.annotation.func), Ok(")")>>)
    ELSE Fmt(<<Ok("  %svdecl("), IdOf(n.target), Ok(", "),
               parseType(lines, n.annotation), Ok(", %private)")>>)

parseDecorator(name) == Fmt(<<Ok("%@"), IdOf(name)>>)

parseDecorators(decorator_list) ==
    parseList([i \in 1..Len(decorator_list) |-> parseDecorator(decorator_list[i])],
              " ", "", "")

parseParam(lines, arg) ==
    Fmt(<<Ok("%param(" \o arg.arg \o ", "), parseType(lines, arg.annotation), Ok(")")>>)

parseParams(lines, args) ==
    parseList([i \in 1..Len(args) |-> parseParam(lines, args[i])], " ", "", "")

parseDef(lines, n, indent) ==
    Block(Lift(Fmt(<<Ok("  %fdecl("), parseDecorators(n.decorator_list),
                     Ok(", " \o n.name \o ", "), parseParams(lines, n.args),
                     Ok(", "), parseType(lines, n.returns), Ok(",")>>), indent),
          parseStmts(lines, n.body, indent, TopLevel), ")", indent)

\* parseList(defs, parseDef, "\n", "\n", " ")
RECURSIVE DefsLoop(_, _, _, _)

DefsFrom(lines, defs, i, r) ==
    IF r.exc # "" THEN r
    ELSE ListCons("\n", r, DefsLoop(lines, defs, i + 1, r.indent))

DefsLoop(lines, defs, i, cur) ==
    IF i > Len(defs) THEN SRes("", "", cur, <<>>)
    ELSE DefsFrom(lines, defs, i, parseDef(lines, defs[i], cur))

\* return rez if rez != "" else emptyCase
OrEmptyCase(rez, emptyCase) ==
    IF rez.exc = "" /\ rez.text = "" THEN SRes("", emptyCase, rez.indent, rez.log)
    ELSE rez

parseDefs(lines, defs, indent) == OrEmptyCase(DefsLoop(lines, defs, 1, indent), " ")

(***************************************************************************)
(* parseProgram.  Buckets is the state of its four lists; exc is the       *)
(* exception that ended the scan, if any.                                  *)
(***************************************************************************)
EmptyBuckets ==
    [events |-> <<>>, globals |-> <<>>, init |-> <<>>, defs |-> <<>>, exc |-> ""]

\* One iteration of the scan: the bucket the node is appended to.
Classify(b, n) ==
    IF n.t = "AnnAssign" /\ n.annotation.t = "Call" /\ n.annotation.func.t # "Name"
    THEN [b EXCEPT !.exc = "AttributeError"]
    ELSE IF n.t = "AnnAssign" /\ n.annotation.t = "Call"
            /\ n.annotation.func.id = "__log__"
    THEN [b EXCEPT !.events = Append(@, n)]
    ELSE IF n.t = "AnnAssign" THEN [b EXCEPT !.globals = Append(@, n)]
    ELSE IF n.t = "FunctionDef"
    THEN (IF n.name = "__init__" THEN [b EXCEPT !.init = Append(@, n)]
          ELSE [b EXCEPT !.defs = Append(@, n)])
    ELSE [b EXCEPT !.exc = "ParserException"]

RECURSIVE ScanLoop(_, _, _)
ScanLoop(nodeList, i, b) ==
    IF i > Len(nodeList) \/ b.exc # "" THEN b
    ELSE ScanLoop(nodeList, i + 1, Classify(b, nodeList[i]))

\* `init is not None' holds of every list, so the second format is never used.
\* The format call, given the results of the first three parseList calls.
RenderDefs(lines, b, head, init, indent) ==
    SFmt(<<head, init,
           Block(Lift(Ok(","), init.indent), parseDefs(lines, b.defs, init.indent),
                 "\n)", init.indent)>>, indent)

RenderProgram(lines, b, indent) ==
    RenderDefs(lines, b,
        Lift(Fmt(<<Ok("%pgm("),
                   parseList([i \in 1..Len(b.events) |-> parseEvent(lines, b.events[i])],
                             "\n", "\n", ""),
                   Ok(","),
                   parseList([i \in 1..Len(b.globals) |->
                                 parseGlobal(lines, b.globals[i])], "\n", "\n", " "),
                   Ok(",")>>), indent),
        parseDefs(lines, b.init, indent), indent)

\* The part of parseProgram after the scan that left the buckets b.
AfterScan(lines, b, indent) ==
    IF b.exc # "" THEN SRes(b.exc, "", indent, <<>>)
    ELSE RenderProgram(lines, b, indent)

parseProgram(lines, nodeList, indent) ==
    AfterScan(lines, ScanLoop(nodeList, 1, EmptyBuckets), indent)

(***************************************************************************)
(* parse: ast.parse followed by resolve_negative_literals.  ast.parse is   *)
(* not part of the repository: the model is given the tree it returns.     *)
(***************************************************************************)
\* 0 - x for a float x: 0 - 0.0 and 0 - (-0.0) are both +0.0.
FloatNegate(x) ==
    IF x.kind = "fin" /\ x.m = <<>> THEN [x EXCEPT !.neg = FALSE]
    ELSE [x EXCEPT !.neg = ~@]

\* 0 - node.operand.n; for a complex the real part stays 0.0 and the
\* imaginary part is subtracted from 0.0.
NegateNum(num) ==
    IF num.ntype = "int" THEN [num EXCEPT !.n = 0 - @]
    ELSE [num EXCEPT !.n = FloatNegate(@)]

\* RewriteUnaryOp.visit: visit_UnaryOp does not descend into the node it keeps;
\* generic_visit visits the child nodes (V) and lists of nodes (VS) of any other.
RECURSIVE resolve_negative_literals(_)
resolve_negative_literals(n) ==
    LET V(x) == resolve_negative_literals(x)
        VS(xs) == [i \in 1..Len(xs) |-> resolve_negative_literals(xs[i])]
    IN  IF n.t = "UnaryOp"
        THEN (IF n.op = "USub" /\ n.operand.t = "Num" THEN NegateNum(n.operand) ELSE n)
        ELSE
             CASE n.t \in {"Attribute", "Index", "keyword"} -> [n EXCEPT !.value = V(@)]
               [] n.t = "Subscript" -> [n EXCEPT !.value = V(@), !.slice = V(@)]
               [] n.t = "BinOp" -> [n EXCEPT !.left = V(@), !.right = V(@)]
               [] n.t = "Compare" -> [n EXCEPT !.left = V(@), !.comparators = VS(@)]
               [] n.t = "BoolOp" -> [n EXCEPT !.values = VS(@)]
               [] n.t \in {"List", "Tuple"} -> [n EXCEPT !.elts = VS(@)]
               [] n.t = "Call" ->
                     [n EXCEPT !.func = V(@), !.args = VS(@), !.keywords = VS(@)]
               [] n.t = "Dict" -> [n EXCEPT !.keys = VS(@), !.values = VS(@)]
               [] n.t = "AnnAssign" ->
                     [n EXCEPT !.target = V(@), !.annotation = V(@), !.value = V(@)]
               [] n.t = "Assign" -> [n EXCEPT !.targets = VS(@), !.value = V(@)]
               [] n.t = "AugAssign" -> [n EXCEPT !.target = V(@), !.value = V(@)]
               [] n.t = "If" ->
                     [n EXCEPT !.test = V(@), !.body = VS(@), !.orelse = VS(@)]
               [] n.t = "For" ->
                     [n EXCEPT !.target = V(@), !.iter = V(@), !.body = VS(@)]
               [] n.t = "While" -> [n EXCEPT !.test = V(@), !.body = VS(@)]
               [] n.t \in {"Return", "Expr"} -> [n EXCEPT !.value = V(@)]
               [] n.t = "Assert" -> [n EXCEPT !.test = V(@)]
               [] n.t = "arg" -> [n EXCEPT !.annotation = V(@)]
               [] n.t = "FunctionDef" ->
                     [n EXCEPT !.args = VS(@), !.body = VS(@),
                               !.decorator_list = VS(@), !.returns = V(@)]
               [] OTHER -> n

parse(tree) == [i \in 1..Len(tree) |-> resolve_negative_literals(tree[i])]

(***************************************************************************)
(* main: a translation of the source src = [lines, tree], lines being      *)
(* input.splitlines() and tree what ast.parse returns for the text,        *)
(* started with the current value of the global stmtsIndent.               *)
(***************************************************************************)
InitialIndent == "  "

main(src, indent) == parseProgram(src.lines, parse(src.tree), indent)

(***************************************************************************)
(* Source text of literals.  A literal site is the text of a function     *)
(* whose last body line is indent \o pre \o written \o post (below an      *)
(* optional comment line) together with the Num node that parse returns    *)
(* for the literal: its value, and the position ast.parse records for it,  *)
(* col_offset being a UTF-8 byte offset.  A minus sign before the literal  *)
(* has been folded in by resolve_negative_literals, which keeps the        *)
(* operand's position.                                                     *)
(***************************************************************************)
MaxHexDigits == 2

MaxDecDigits == 2

MaxNumerator == 12

MaxFracDigits == 12

\* Every literal stands in a statement of the body of `def f():'.
FuncHead == <<"d", "e", "f", " ", "f", "(", ")", ":">>

BodyIndent == <<" ", " ", " ", " ">>

\* The text of the statement before and after the literal.
Contexts ==
    { [pre |-> <<"x", " ", "=", " ">>, post |-> <<>>],
      [pre |-> <<"r", "e", "t", "u", "r", "n", " ">>,
       post |-> <<" ", "+", " ", "y">>],
      [pre |-> <<"s", "e", "n", "d", "(", "\"", "é", "\"", ",", " ">>,
       post |-> <<")">>],
      [pre |-> <<"a", " ", "=", " ", "[", "\"", "é", "é", "\"", ",", " ">>,
       post |-> <<"]">>],
      [pre |-> <<"s", "e", "n", "d", "(", "\"", "€", "\"", ",", " ">>,
       post |-> <<")">>] }

\* The lines of the body above the statement: none, or a comment.
LinesAbove == { <<>>, << BodyIndent \o <<"#", " ", "c">> >> }

SeqsUpTo(S, k) == UNION { [1..m -> S] : m \in 1..k }

HexRuns == SeqsUpTo({"0", "a", "F", "9"}, MaxHexDigits)

DecRuns == { d \in SeqsUpTo({"0", "1", "7"}, MaxDecDigits) : Len(d) = 1 \/ d[1] # "0" }

DigitChar(d) == <<"0", "1", "2", "3", "4", "5", "6", "7", "8", "9">>[d + 1]

RECURSIVE NatChars(_)
NatChars(n) ==
    IF n < 10 THEN <<DigitChar(n)>> ELSE Append(NatChars(n \div 10), DigitChar(n % 10))

Sign(neg) == IF neg THEN <<"-">> ELSE <<>>

\* The site of a literal written as `written' (after an optional minus sign).
Site(ctx, above, neg, written, num) ==
    [lines   |-> <<FuncHead>> \o above
                 \o <<BodyIndent \o ctx.pre \o Sign(neg) \o written \o ctx.post>>,
     written |-> written,
     ast     |-> num @@ [t |-> "Num", lineno |-> Len(above) + 2,
                         col_offset |-> Utf8Len(BodyIndent \o ctx.pre \o Sign(neg))]]

IntNum(neg, value) ==
    [ntype |-> "int", n |-> IF neg THEN 0 - value ELSE value]

HexSites ==
    { Site(c, a, neg, <<"0", "x">> \o d, IntNum(neg, DigitsValue(d, 16))) :
        c \in Contexts, a \in LinesAbove, neg \in BOOLEAN, d \in HexRuns }

DecSites ==
    { Site(c, a, neg, d, IntNum(neg, DigitsValue(d, 10))) :
        c \in Contexts, a \in LinesAbove, neg \in BOOLEAN, d \in DecRuns }

PadZeros(cs, k) ==
    IF Len(cs) >= k THEN cs ELSE [i \in 1..(k - Len(cs)) |-> "0"] \o cs

\* The decimal notation of a / 10^n: 7 / 10^2 is written 0.07, 3 / 10^0 is 3.0
DecimalChars(a, n) ==
    IF n = 0 THEN NatChars(a) \o <<".", "0">>
    ELSE LET d == PadZeros(NatChars(a), n + 1)
         IN  Take(d, Len(d) - n) \o <<".">> \o Drop(d, Len(d) - n)

\* The float literal a / 10^n.
FloatSites ==
    { Site(c, <<>>, neg, DecimalChars(a, n),
           [ntype |-> "float", n |-> FloatOfDecimal(neg, a, n),
            num |-> a, frac |-> n]) :
        c \in {x \in Contexts : x.post = <<>>}, neg \in BOOLEAN,
        a \in 1..MaxNumerator, n \in 0..MaxFracDigits }

OtherSites ==
    { Site(c, <<>>, FALSE, <<"1", "e", "9", "9", "9">>,
           [ntype |-> "float", n |-> FloatInf(FALSE), num |-> 0, frac |-> 0]) :
        c \in Contexts }
    \cup
    { Site(c, <<>>, FALSE, <<"1", "j">>,
           [ntype |-> "complex", n |-> FloatOfDecimal(FALSE, 1, 0)]) : c \in Contexts }

IsConstSite(s) ==
    s \in HexSites \/ s \in DecSites \/ s \in FloatSites \/ s \in OtherSites

(***************************************************************************)
(* SpecConst: parseConst applied to a literal of the source.               *)
(***************************************************************************)
InitConst ==
    /\ IsConstSite(input)
    /\ inputLines = input.lines
    /\ stmtsIndent = InitialIndent
    /\ out = NoOut
    /\ op = ""
    /\ runs = 0

ParseConstStep ==
    /\ op = ""
    /\ out' = parseConst(inputLines, input.ast)
    /\ op' = "parseConst"
    /\ runs' = runs + 1
    /\ UNCHANGED <<inputLines, stmtsIndent, input>>

NextConst == ParseConstStep

SpecConst == InitConst /\ [][NextConst]_vars

(***************************************************************************)
(* Properties of parseConst.                                               *)
(***************************************************************************)
IsHexWritten(w) == Len(w) > 2 /\ Take(w, 2) = <<"0", "x">>

\* 10^k as a Dec
PowTenDec(k) == <<1>> \o [i \in 1..k |-> 0]

Fixed10Text(A, B) == "%fixed10(" \o A \o ", " \o DecText(B) \o ")"

\* C1: every integer literal written with a 0x prefix, whatever precedes it on
\* its line, renders %hex("<digits>") with exactly the hex digits of the source
\* text, and never as a decimal integer.
C1_HexVerbatim ==
    (op = "parseConst" /\ IsHexWritten(input.written))
        => out = Ok("%hex(\"" \o JoinChars(Drop(input.written, 2)) \o "\")")

\* A decimal literal a / 10^n with exactly n significant fractional digits.
IsExactDecimal(ast) ==
    /\ ast.ntype = "float" /\ ast.n.kind = "fin"
    /\ (ast.frac = 0 \/ ast.num % 10 # 0)

\* C2: a decimal literal with exactly n <= 10 significant fractional digits
\* renders %fixed10(A, B) with B = 10^n and A = literal * B exactly.
C2_Fixed10Exact ==
    (op = "parseConst" /\ IsExactDecimal(input.ast) /\ input.ast.frac <= 10)
        => out = Ok(Fixed10Text((IF input.ast.n.neg THEN "-" ELSE "")
                                    \o ToString(input.ast.num),
                                PowTenDec(input.ast.frac)))

\* C3: for every non-integer numeric literal (float or complex) a term is
\* rendered without an error, the scaling loop takes at most 10 iterations and
\* the rendered denominator is a power of ten from 1 to 10^10; a literal that
\* needs more than 10 fractional digits is rendered with the denominator 10^10.
C3_ScaleLoopCapped ==
    (op = "parseConst" /\ input.ast.ntype # "int") =>
        /\ out.exc = ""
        /\ LET r == ScaleLoop(input.ast.n, DecOne, 0)
           IN  /\ r.iters <= 10
               /\ \E k \in 0..10 :
                     /\ r.iters = k
                     /\ out = Ok(Fixed10Text(FormatF0(r.num), PowTenDec(k)))
               /\ (IsExactDecimal(input.ast) /\ input.ast.frac > 10) =>
                     /\ r.iters = 10
                     /\ out = Ok(Fixed10Text(FormatF0(r.num), DECIMAL_DIVISOR))

(***************************************************************************)
(* SpecExpr: parseExpr applied to an attribute access <name>.<attr> and to *)
(* a call self.<method>(a1, ..., ak), each on a source line of its own.    *)
(***************************************************************************)
MaxArgs == 3

ExprNames ==
    { <<"m", "s", "g">>,
      <<"b", "l", "o", "c", "k">>,
      <<"t", "x">>,
      <<"s", "e", "l", "f">>,
      <<"f", "o", "o">>,
      <<"t", "r", "u", "e">> }

ExprAttrs ==
    { <<"s", "e", "n", "d", "e", "r">>,
      <<"v", "a", "l", "u", "e">>,
      <<"g", "a", "s">>,
      <<"d", "i", "f", "f", "i", "c", "u", "l", "t", "y">>,
      <<"t", "i", "m", "e", "s", "t", "a", "m", "p">>,
      <<"c", "o", "i", "n", "b", "a", "s", "e">>,
      <<"n", "u", "m", "b", "e", "r">>,
      <<"p", "r", "e", "v", "h", "a", "s", "h">>,
      <<"o", "r", "i", "g", "i", "n">>,
      <<"b", "a", "l", "a", "n", "c", "e">>,
      <<"x">> }

MethodNames ==
    { <<"f", "o", "o">>,
      <<"s", "e", "n", "d">>,
      <<"a", "s", "_", "w", "e", "i", "_", "v", "a", "l", "u", "e">> }

AssignPrefix == <<"v", " ", "=", " ">>

AttributeSite(name, attr) ==
    [shape |-> "attribute",
     lines |-> <<AssignPrefix \o name \o <<".">> \o attr>>,
     ast   |-> [t |-> "Attribute", value |-> [t |-> "Name", id |-> JoinChars(name)],
                attr |-> JoinChars(attr)]]

\* The arguments drawn for a call: the source text of each, the node ast.parse
\* gives for it at column col of line 1, and its translation.
ArgKinds == {"x", "y", "one", "hex", "sender", "call", "sum"}

ArgSrc(k) ==
    CASE k = "x"      -> <<"x">>
      [] k = "y"      -> <<"y">>
      [] k = "one"    -> <<"1">>
      [] k = "hex"    -> <<"0", "x", "1", "F">>
      [] k = "sender" -> <<"m", "s", "g", ".", "s", "e", "n", "d", "e", "r">>
      [] k = "call"   -> <<"s", "e", "l", "f", ".", "g", "(", "x", ")">>
      [] k = "sum"    -> <<"x", " ", "+", " ", "1">>

ArgNode(k, col) ==
    CASE k = "x"      -> [t |-> "Name", id |-> "x"]
      [] k = "y"      -> [t |-> "Name", id |-> "y"]
      [] k = "one"    -> [t |-> "Num", ntype |-> "int", n |-> 1, lineno |-> 1,
                          col_offset |-> col]
      [] k = "hex"    -> [t |-> "Num", ntype |-> "int", n |-> 31, lineno |-> 1,
                          col_offset |-> col]
      [] k = "sender" -> [t |-> "Attribute", value |-> [t |-> "Name", id |-> "msg"],
                          attr |-> "sender"]
      [] k = "call"   -> [t |-> "Call",
                          func |-> [t |-> "Attribute",
                                    value |-> [t |-> "Name", id |-> "self"],
                                    attr |-> "g"],
                          args |-> <<[t |-> "Name", id |-> "x"]>>, keywords |-> <<>>]
      [] k = "sum"    -> [t |-> "BinOp", op |-> "Add",
                          left |-> [t |-> "Name", id |-> "x"],
                          right |-> [t |-> "Num", ntype |-> "int", n |-> 1,
                                     lineno |-> 1, col_offset |-> col + 4]]

ArgText(k) ==
    CASE k = "x"      -> "%var(x)"
      [] k = "y"      -> "%var(y)"
      [] k = "one"    -> "1"
      [] k = "hex"    -> "%hex(\"1F\")"
      [] k = "sender" -> "%msg.sender"
      [] k = "call"   -> "%icall(g, %var(x))"
      [] k = "sum"    -> "%binop(+, %var(x), 1)"

RECURSIVE ArgsSrc(_, _)
ArgsSrc(ks, i) ==
    IF i > Len(ks) THEN <<>>
    ELSE (IF i > 1 THEN <<",", " ">> ELSE <<>>) \o ArgSrc(ks[i]) \o ArgsSrc(ks, i + 1)

RECURSIVE ArgNodes(_, _, _)
ArgNodes(ks, i, col) ==
    IF i > Len(ks) THEN <<>>
    ELSE <<ArgNode(ks[i], col)>> \o ArgNodes(ks, i + 1, col + Len(ArgSrc(ks[i])) + 2)

ArgSeqs == UNION { [1..m -> ArgKinds] : m \in 0..MaxArgs }

CallSite(method, ks) ==
    LET pre == AssignPrefix \o <<"s", "e", "l", "f", ".">> \o method \o <<"(">>
    IN  [shape  |-> "icall",
         method |-> JoinChars(method),
         kinds  |-> ks,
         lines  |-> <<pre \o ArgsSrc(ks, 1) \o <<")">>>>,
         ast    |-> [t |-> "Call",
                     func |-> [t |-> "Attribute",
                               value |-> [t |-> "Name", id |-> "self"],
                               attr |-> JoinChars(method)],
                     args |-> ArgNodes(ks, 1, Len(pre)), keywords |-> <<>>]]

InitExpr ==
    /\ \/ \E name \in ExprNames, attr \in ExprAttrs : input = AttributeSite(name, attr)
       \/ \E method \in MethodNames, ks \in ArgSeqs : input = CallSite(method, ks)
    /\ inputLines = input.lines
    /\ stmtsIndent = InitialIndent
    /\ out = NoOut
    /\ op = ""
    /\ runs = 0

ParseExprStep ==
    /\ op = ""
    /\ out' = parseExpr(inputLines, input.ast)
    /\ op' = "parseExpr"
    /\ runs' = runs + 1
    /\ UNCHANGED <<inputLines, stmtsIndent, input>>

NextExpr == ParseExprStep

SpecExpr == InitExpr /\ [][NextExpr]_vars

(***************************************************************************)
(* Properties of parseExpr.                                                *)
(***************************************************************************)
ReservedProperties ==
    {<<"msg", "sender">>, <<"msg", "value">>, <<"msg", "gas">>,
     <<"block", "difficulty">>, <<"block", "timestamp">>, <<"block", "coinbase">>,
     <<"block", "number">>, <<"block", "prevhash">>, <<"tx", "origin">>}

\* C6: <name>.<attr> renders as the reserved property %<name>.<attr> if and
\* only if the pair is on the whitelist; off the whitelist it renders as
\* %attribute(%var(<name>), <attr>), or as %svar(<attr>) when <name> is self.
C6_ReservedWhitelist ==
    (op = "parseExpr" /\ input.shape = "attribute") =>
        LET name == input.ast.value.id
            attr == input.ast.attr
        IN  /\ out = Ok("%" \o name \o "." \o attr)
                  <=> <<name, attr>> \in ReservedProperties
            /\ (<<name, attr>> \notin ReservedProperties /\ name # "self")
                  => out = Ok("%attribute(%var(" \o name \o "), " \o attr \o ")")
            /\ name = "self" => out = Ok("%svar(" \o attr \o ")")

\* C6 witness: block.sender, whose attribute is reserved for msg only, has been
\* translated as an attribute access.
C6_OffWhitelistTranslated ==
    /\ op = "parseExpr" /\ input.shape = "attribute"
    /\ input.ast.value.id = "block" /\ input.ast.attr = "sender"
    /\ out = Ok("%attribute(%var(block), sender)")

RECURSIVE SpaceSeparated(_)
SpaceSeparated(texts) ==
    IF texts = <<>> THEN ""
    ELSE IF Len(texts) = 1 THEN texts[1]
    ELSE texts[1] \o " " \o SpaceSeparated(Tail(texts))

\* C7: self.<method>(a1, ..., ak) translates to %icall(<method>, T(a1) ... T(ak)),
\* the arguments in source order and separated by single spaces, whatever the
\* method is called.
C7_InternalCall ==
    (op = "parseExpr" /\ input.shape = "icall") =>
        out = Ok("%icall(" \o input.method \o ", "
                 \o SpaceSeparated([i \in 1..Len(input.kinds) |-> ArgText(input.kinds[i])])
                 \o ")")

\* C7 witness: self.send(y, 0x1F, x) has been translated as an internal call.
C7_InternalCallTranslated ==
    /\ op = "parseExpr" /\ input.shape = "icall"
    /\ input.method = "send" /\ input.kinds = <<"y", "hex", "x">>
    /\ out = Ok("%icall(send, %var(y) %hex(\"1F\") %var(x))")

(***************************************************************************)
(* SpecProgram: parseProgram applied to the top-level declarations of a    *)
(* source text made of distinct declarations of DeclPool in any order.     *)
(***************************************************************************)
MaxDecls == 4

\* Transfer: __log__({_from: indexed(address), _value: num256})
EventTransfer ==
    [lines |-> <<<<"T", "r", "a", "n", "s", "f", "e", "r", ":", " ", "_", "_", "l",
      "o", "g", "_", "_", "(", "{", "_", "f", "r", "o", "m", ":", " ", "i", "n", "d",
      "e", "x", "e", "d", "(", "a", "d", "d", "r", "e", "s", "s", ")", ",", " ", "_",
      "v", "a", "l", "u", "e", ":", " ", "n", "u", "m", "2", "5", "6", "}", ")">>>>,
      node |-> [t |-> "AnnAssign", target |-> [t |-> "Name", id |-> "Transfer"],
      annotation |-> [t |-> "Call", func |-> [t |-> "Name", id |-> "__log__"],
      args |-> <<[t |-> "Dict", keys |-> <<[t |-> "Name", id |-> "_from"],
      [t |-> "Name", id |-> "_value"]>>, values |-> <<[t |-> "Call",
      func |-> [t |-> "Name", id |-> "indexed"], args |-> <<[t |-> "Name",
      id |-> "address"]>>, keywords |-> <<>>], [t |-> "Name", id |-> "num256"]>>]>>,
      keywords |-> <<>>], value |-> None]]

\* owner: address
GlobalOwner ==
    [lines |-> <<<<"o", "w", "n", "e", "r", ":", " ", "a", "d", "d", "r", "e", "s",
      "s">>>>, node |-> [t |-> "AnnAssign", target |-> [t |-> "Name", id |-> "owner"],
      annotation |-> [t |-> "Name", id |-> "address"], value |-> None]]

\* total: public(num)
GlobalTotal ==
    [lines |-> <<<<"t", "o", "t", "a", "l", ":", " ", "p", "u", "b", "l", "i", "c",
      "(", "n", "u", "m", ")">>>>, node |-> [t |-> "AnnAssign",
      target |-> [t |-> "Name", id |-> "total"], annotation |-> [t |-> "Call",
      func |-> [t |-> "Name", id |-> "public"], args |-> <<[t |-> "Name",
      id |-> "num"]>>, keywords |-> <<>>], value |-> None]]

\* x: num(wei)
GlobalWei ==
    [lines |-> <<<<"x", ":", " ", "n", "u", "m", "(", "w", "e", "i", ")">>>>,
      node |-> [t |-> "AnnAssign", target |-> [t |-> "Name", id |-> "x"],
      annotation |-> [t |-> "Call", func |-> [t |-> "Name", id |-> "num"],
      args |-> <<[t |-> "Name", id |-> "wei"]>>, keywords |-> <<>>], value |-> None]]

\* y: a.b(num)
GlobalAttrCall ==
    [lines |-> <<<<"y", ":", " ", "a", ".", "b", "(", "n", "u", "m", ")">>>>,
      node |-> [t |-> "AnnAssign", target |-> [t |-> "Name", id |-> "y"],
      annotation |-> [t |-> "Call", func |-> [t |-> "Attribute",
      value |-> [t |-> "Name", id |-> "a"], attr |-> "b"], args |-> <<[t |-> "Name",
      id |-> "num"]>>, keywords |-> <<>>], value |-> None]]

\* def __init__(): /     self.owner = msg.sender
InitDef ==
    [lines |-> <<<<"d", "e", "f", " ", "_", "_", "i", "n", "i", "t", "_", "_", "(",
      ")", ":">>, <<" ", " ", " ", " ", "s", "e", "l", "f", ".", "o", "w", "n", "e",
      "r", " ", "=", " ", "m", "s", "g", ".", "s", "e", "n", "d", "e", "r">>>>,
      node |-> [t |-> "FunctionDef", name |-> "__init__", args |-> <<>>,
      body |-> <<[t |-> "Assign", targets |-> <<[t |-> "Attribute",
      value |-> [t |-> "Name", id |-> "self"], attr |-> "owner"]>>,
      value |-> [t |-> "Attribute", value |-> [t |-> "Name", id |-> "msg"],
      attr |-> "sender"]]>>, decorator_list |-> <<>>, returns |-> None]]

\* @public / def f(a: num) -> num: /     return a
FuncDef ==
    [lines |-> <<<<"@", "p", "u", "b", "l", "i", "c">>, <<"d", "e", "f", " ", "f", "(",
      "a", ":", " ", "n", "u", "m", ")", " ", "-", ">", " ", "n", "u", "m", ":">>,
      <<" ", " ", " ", " ", "r", "e", "t", "u", "r", "n", " ", "a">>>>,
      node |-> [t |-> "FunctionDef", name |-> "f", args |-> <<[t |-> "arg",
      arg |-> "a", annotation |-> [t |-> "Name", id |-> "num"]]>>,
      body |-> <<[t |-> "Return", value |-> [t |-> "Name", id |-> "a"]]>>,
      decorator_list |-> <<[t |-> "Name", id |-> "public"]>>,
      returns |-> [t |-> "Name", id |-> "num"]]]

\* import x
ImportStmt ==
    [lines |-> <<<<"i", "m", "p", "o", "r", "t", " ", "x">>>>,
      node |-> [t |-> "Import"]]

\* Ping: __log__({})
EventPing ==
    [lines |-> <<<<"P", "i", "n", "g", ":", " ", "_", "_", "l", "o", "g", "_", "_",
      "(", "{", "}", ")">>>>, node |-> [t |-> "AnnAssign", target |-> [t |-> "Name",
      id |-> "Ping"], annotation |-> [t |-> "Call", func |-> [t |-> "Name",
      id |-> "__log__"], args |-> <<[t |-> "Dict", keys |-> <<>>, values |-> <<>>]>>,
      keywords |-> <<>>], value |-> None]]

\* def g(): /     pass
FuncPass ==
    [lines |-> <<<<"d", "e", "f", " ", "g", "(", ")", ":">>, <<" ", " ", " ", " ", "p",
      "a", "s", "s">>>>, node |-> [t |-> "FunctionDef", name |-> "g", args |-> <<>>,
      body |-> <<[t |-> "Pass"]>>, decorator_list |-> <<>>, returns |-> None]]

DeclPool ==
    <<EventTransfer, GlobalOwner, GlobalTotal, GlobalWei, GlobalAttrCall, InitDef,
      FuncDef, ImportStmt, EventPing, FuncPass>>

DeclOrders ==
    UNION { { s \in [1..m -> 1..Len(DeclPool)] :
                \A i, j \in 1..m : s[i] = s[j] => i = j } : m \in 1..MaxDecls }

RECURSIVE ConcatLines(_)
ConcatLines(ds) ==
    IF ds = <<>> THEN <<>> ELSE Head(ds).lines \o ConcatLines(Tail(ds))

SourceOf(order) ==
    LET ds == [i \in 1..Len(order) |-> DeclPool[order[i]]]
    IN  [order |-> order,
         lines |-> ConcatLines(ds),
         tree  |-> [i \in 1..Len(ds) |-> ds[i].node]]

InitProgram ==
    /\ \E order \in DeclOrders : input = SourceOf(order)
    /\ inputLines = input.lines
    /\ stmtsIndent = InitialIndent
    /\ out = NoOut
    /\ op = ""
    /\ runs = 0

ParseProgramStep ==
    /\ op = ""
    /\ out' = parseProgram(inputLines, input.tree, stmtsIndent)
    /\ stmtsIndent' = out'.indent
    /\ op' = "parseProgram"
    /\ runs' = runs + 1
    /\ UNCHANGED <<inputLines, input>>

NextProgram == ParseProgramStep

SpecProgram == InitProgram /\ [][NextProgram]_vars

(***************************************************************************)
(* Properties of parseProgram.                                             *)
(***************************************************************************)
IsAnnotated(n) == n.t = "AnnAssign"

IsFunction(n) == n.t = "FunctionDef"

\* An annotated declaration whose annotation is a call to __log__.
IsEventDecl(n) ==
    /\ IsAnnotated(n) /\ n.annotation.t = "Call"
    /\ n.annotation.func.t = "Name" /\ n.annotation.func.id = "__log__"

IsGlobalDecl(n) == IsAnnotated(n) /\ ~IsEventDecl(n)

IsInitDecl(n) == IsFunction(n) /\ n.name = "__init__"

IsFunctionDecl(n) == IsFunction(n) /\ n.name # "__init__"

RECURSIVE BucketText(_, _)
BucketText(texts, emptyCase) ==
    IF texts = <<>> THEN emptyCase
    ELSE "\n" \o Head(texts) \o BucketText(Tail(texts), "")

\* The Program term of the declarations: the four buckets in the order events,
\* globals, init, functions, each in source order; GlobalText renders a Global.
ProgramText(lines, tree, indent, GlobalText(_)) ==
    LET events  == SelectSeq(tree, IsEventDecl)
        globals == SelectSeq(tree, IsGlobalDecl)
        init    == SelectSeq(tree, IsInitDecl)
        defs    == SelectSeq(tree, IsFunctionDecl)
    IN  "%pgm("
        \o BucketText([i \in 1..Len(events) |-> parseEvent(lines, events[i]).text], "")
        \o ","
        \o BucketText([i \in 1..Len(globals) |-> GlobalText(globals[i])], " ")
        \o ","
        \o BucketText([i \in 1..Len(init) |-> parseDef(lines, init[i], indent).text], " ")
        \o ","
        \o BucketText([i \in 1..Len(defs) |-> parseDef(lines, defs[i], indent).text], " ")
        \o "\n)"

\* C8: a top-level node that is neither an annotated declaration nor a function
\* declaration makes parseProgram abort with ParserException and no Program
\* text, wherever it stands and whatever the other declarations are.
C8_UnsupportedTopLevel ==
    (op = "parseProgram"
        /\ \E i \in 1..Len(input.tree) :
               ~IsAnnotated(input.tree[i]) /\ ~IsFunction(input.tree[i]))
      => out.exc = "ParserException" /\ out.text = ""

\* An annotation wrapped in an explicit visibility call.
IsVisibilityCall(a) ==
    a.t = "Call" /\ a.func.t = "Name" /\ a.func.id \in {"public", "private"}

\* The Global the declaration stands for: the visibility of its wrapper and the
\* wrapped type, or %private and the whole annotation when there is no wrapper.
GlobalTerm(lines, n) ==
    IF IsVisibilityCall(n.annotation) /\ Len(n.annotation.args) = 1
    THEN "  %svdecl(" \o n.target.id \o ", "
         \o parseType(lines, n.annotation.args[1]).text
         \o ", %" \o n.annotation.func.id \o ")"
    ELSE "  %svdecl(" \o n.target.id \o ", " \o parseType(lines, n.annotation).text
         \o ", %private)"

\* C9: every Global renders as %svdecl(name, type, V) with V %public or
\* %private; V is %private and type is the translation of the whole annotation
\* whenever the annotation is not wrapped in a visibility call, also when it is
\* a call-shaped unit type such as num(wei).
C9_GlobalVisibility ==
    (op = "parseProgram" /\ out.exc = "") =>
        out.text = ProgramText(inputLines, input.tree, InitialIndent,
                               LAMBDA n : GlobalTerm(inputLines, n))

\* C10: when every top-level node is an annotated declaration or a function
\* declaration, each is put into exactly one of the four buckets by its shape
\* (an annotated declaration that is no __log__ event is a global), and the
\* Program is rendered with the buckets in the order events, globals, init,
\* functions, each in source order, whatever the order in the source.
C10_BucketOrder ==
    (op = "parseProgram"
        /\ \A i \in 1..Len(input.tree) :
               IsAnnotated(input.tree[i]) \/ IsFunction(input.tree[i]))
      => /\ ScanLoop(input.tree, 1, EmptyBuckets).exc = ""
         /\ LET b == ScanLoop(input.tree, 1, EmptyBuckets)
            IN  /\ b.events = SelectSeq(input.tree, IsEventDecl)
                /\ b.globals = SelectSeq(input.tree, IsGlobalDecl)
                /\ b.init = SelectSeq(input.tree, IsInitDecl)
                /\ b.defs = SelectSeq(input.tree, IsFunctionDecl)
         /\ out.exc = ""
         /\ out.text = ProgramText(inputLines, input.tree, InitialIndent,
                                   LAMBDA n : parseGlobal(inputLines, n).text)

\* The Program term without a constructor component: %pgm(EVENTS,GLOBALS,DEFS\n)
ThreeComponentText(lines, tree, indent) ==
    LET events  == SelectSeq(tree, IsEventDecl)
        globals == SelectSeq(tree, IsGlobalDecl)
        defs    == SelectSeq(tree, IsFunctionDecl)
    IN  "%pgm("
        \o BucketText([i \in 1..Len(events) |-> parseEvent(lines, events[i]).text], "")
        \o ","
        \o BucketText([i \in 1..Len(globals) |-> parseGlobal(lines, globals[i]).text],
                      " ")
        \o ","
        \o BucketText([i \in 1..Len(defs) |-> parseDef(lines, defs[i], indent).text], " ")
        \o "\n)"

\* C11: the constructor component of the Program term is optional: a source
\* without a function named __init__ renders the three-component form
\* %pgm(EVENTS,GLOBALS,DEFS\n), and the four-component form is rendered only
\* when the source declares at least one constructor.
C11_OptionalInit ==
    (op = "parseProgram" /\ out.exc = "") =>
        out.text = IF SelectSeq(input.tree, IsInitDecl) = <<>>
                   THEN ThreeComponentText(inputLines, input.tree, InitialIndent)
                   ELSE ProgramText(inputLines, input.tree, InitialIndent,
                                    LAMBDA n : parseGlobal(inputLines, n).text)

(***************************************************************************)
(* Spec: translations run one after another in the same process.  Each     *)
(* Main step is one call of main on a source text of Sources: it assigns   *)
(* inputLines and runs parseProgram, whose statement translator works on   *)
(* the global stmtsIndent as the call before left it.  out keeps the       *)
(* outcome of the last call together with its parseStmts history.          *)
(***************************************************************************)
MaxRuns == 3

\* def g(): /     pass
SrcPass ==
    [lines |-> <<<<"d", "e", "f", " ", "g", "(", ")", ":">>, <<" ", " ", " ", " ", "p",
      "a", "s", "s">>>>, tree |-> <<[t |-> "FunctionDef", name |-> "g", args |-> <<>>,
      body |-> <<[t |-> "Pass"]>>, decorator_list |-> <<>>, returns |-> None]>>]

\* def f(): /     if a: /         x = 1 /     y = 2 /     for i in range(3): /         break /     return y
SrcSiblingBlocks ==
    [lines |-> <<<<"d", "e", "f", " ", "f", "(", ")", ":">>, <<" ", " ", " ", " ", "i",
      "f", " ", "a", ":">>, <<" ", " ", " ", " ", " ", " ", " ", " ", "x", " ", "=",
      " ", "1">>, <<" ", " ", " ", " ", "y", " ", "=", " ", "2">>, <<" ", " ", " ",
      " ", "f", "o", "r", " ", "i", " ", "i", "n", " ", "r", "a", "n", "g", "e", "(",
      "3", ")", ":">>, <<" ", " ", " ", " ", " ", " ", " ", " ", "b", "r", "e", "a",
      "k">>, <<" ", " ", " ", " ", "r", "e", "t", "u", "r", "n", " ", "y">>>>,
      tree |-> <<[t |-> "FunctionDef", name |-> "f", args |-> <<>>,
      body |-> <<[t |-> "If", test |-> [t |-> "Name", id |-> "a"],
      body |-> <<[t |-> "Assign", targets |-> <<[t |-> "Name", id |-> "x"]>>,
      value |-> [t |-> "Num", ntype |-> "int", n |-> 1, lineno |-> 3,
      col_offset |-> 12]]>>, orelse |-> <<>>], [t |-> "Assign",
      targets |-> <<[t |-> "Name", id |-> "y"]>>, value |-> [t |-> "Num",
      ntype |-> "int", n |-> 2, lineno |-> 4, col_offset |-> 8]], [t |-> "For",
      target |-> [t |-> "Name", id |-> "i"], iter |-> [t |-> "Call",
      func |-> [t |-> "Name", id |-> "range"], args |-> <<[t |-> "Num",
      ntype |-> "int", n |-> 3, lineno |-> 5, col_offset |-> 19]>>, keywords |-> <<>>],
      body |-> <<[t |-> "Break"]>>], [t |-> "Return", value |-> [t |-> "Name",
      id |-> "y"]]>>, decorator_list |-> <<>>, returns |-> None]>>]

\* def f(): /     if a: /         if b: /             pass /         x = 0x1F /     else: /         pass /     return x
SrcNestedBlocks ==
    [lines |-> <<<<"d", "e", "f", " ", "f", "(", ")", ":">>, <<" ", " ", " ", " ", "i",
      "f", " ", "a", ":">>, <<" ", " ", " ", " ", " ", " ", " ", " ", "i", "f", " ",
      "b", ":">>, <<" ", " ", " ", " ", " ", " ", " ", " ", " ", " ", " ", " ", "p",
      "a", "s", "s">>, <<" ", " ", " ", " ", " ", " ", " ", " ", "x", " ", "=", " ",
      "0", "x", "1", "F">>, <<" ", " ", " ", " ", "e", "l", "s", "e", ":">>, <<" ",
      " ", " ", " ", " ", " ", " ", " ", "p", "a", "s", "s">>, <<" ", " ", " ", " ",
      "r", "e", "t", "u", "r", "n", " ", "x">>>>, tree |-> <<[t |-> "FunctionDef",
      name |-> "f", args |-> <<>>, body |-> <<[t |-> "If", test |-> [t |-> "Name",
      id |-> "a"], body |-> <<[t |-> "If", test |-> [t |-> "Name", id |-> "b"],
      body |-> <<[t |-> "Pass"]>>, orelse |-> <<>>], [t |-> "Assign",
      targets |-> <<[t |-> "Name", id |-> "x"]>>, value |-> [t |-> "Num",
      ntype |-> "int", n |-> 31, lineno |-> 5, col_offset |-> 12]]>>,
      orelse |-> <<[t |-> "Pass"]>>], [t |-> "Return", value |-> [t |-> "Name",
      id |-> "x"]]>>, decorator_list |-> <<>>, returns |-> None]>>]

\* owner: address / def __init__(): /     self.owner = msg.sender / def g(): /     for x in xs: /         if x: /             y = self.h(x)
SrcTwoDefs ==
    [lines |-> <<<<"o", "w", "n", "e", "r", ":", " ", "a", "d", "d", "r", "e", "s",
      "s">>, <<"d", "e", "f", " ", "_", "_", "i", "n", "i", "t", "_", "_", "(", ")",
      ":">>, <<" ", " ", " ", " ", "s", "e", "l", "f", ".", "o", "w", "n", "e", "r",
      " ", "=", " ", "m", "s", "g", ".", "s", "e", "n", "d", "e", "r">>, <<"d", "e",
      "f", " ", "g", "(", ")", ":">>, <<" ", " ", " ", " ", "f", "o", "r", " ", "x",
      " ", "i", "n", " ", "x", "s", ":">>, <<" ", " ", " ", " ", " ", " ", " ", " ",
      "i", "f", " ", "x", ":">>, <<" ", " ", " ", " ", " ", " ", " ", " ", " ", " ",
      " ", " ", "y", " ", "=", " ", "s", "e", "l", "f", ".", "h", "(", "x", ")">>>>,
      tree |-> <<[t |-> "AnnAssign", target |-> [t |-> "Name", id |-> "owner"],
      annotation |-> [t |-> "Name", id |-> "address"], value |-> None],
      [t |-> "FunctionDef", name |-> "__init__", args |-> <<>>,
      body |-> <<[t |-> "Assign", targets |-> <<[t |-> "Attribute",
      value |-> [t |-> "Name", id |-> "self"], attr |-> "owner"]>>,
      value |-> [t |-> "Attribute", value |-> [t |-> "Name", id |-> "msg"],
      attr |-> "sender"]]>>, decorator_list |-> <<>>, returns |-> None],
      [t |-> "FunctionDef", name |-> "g", args |-> <<>>, body |-> <<[t |-> "For",
      target |-> [t |-> "Name", id |-> "x"], iter |-> [t |-> "Name", id |-> "xs"],
      body |-> <<[t |-> "If", test |-> [t |-> "Name", id |-> "x"],
      body |-> <<[t |-> "Assign", targets |-> <<[t |-> "Name", id |-> "y"]>>,
      value |-> [t |-> "Call", func |-> [t |-> "Attribute", value |-> [t |-> "Name",
      id |-> "self"], attr |-> "h"], args |-> <<[t |-> "Name", id |-> "x"]>>,
      keywords |-> <<>>]]>>, orelse |-> <<>>]>>]>>, decorator_list |-> <<>>,
      returns |-> None]>>]

\* total: public(num)
SrcGlobalsOnly ==
    [lines |-> <<<<"t", "o", "t", "a", "l", ":", " ", "p", "u", "b", "l", "i", "c",
      "(", "n", "u", "m", ")">>>>, tree |-> <<[t |-> "AnnAssign",
      target |-> [t |-> "Name", id |-> "total"], annotation |-> [t |-> "Call",
      func |-> [t |-> "Name", id |-> "public"], args |-> <<[t |-> "Name",
      id |-> "num"]>>, keywords |-> <<>>], value |-> None]>>]

\* import x
SrcFaultTopLevel ==
    [lines |-> <<<<"i", "m", "p", "o", "r", "t", " ", "x">>>>,
      tree |-> <<[t |-> "Import"]>>]

\* def h(): /     while a: /         pass
SrcFaultDepth1 ==
    [lines |-> <<<<"d", "e", "f", " ", "h", "(", ")", ":">>, <<" ", " ", " ", " ", "w",
      "h", "i", "l", "e", " ", "a", ":">>, <<" ", " ", " ", " ", " ", " ", " ", " ",
      "p", "a", "s", "s">>>>, tree |-> <<[t |-> "FunctionDef", name |-> "h",
      args |-> <<>>, body |-> <<[t |-> "While", test |-> [t |-> "Name", id |-> "a"],
      body |-> <<[t |-> "Pass"]>>]>>, decorator_list |-> <<>>, returns |-> None]>>]

\* def h(): /     if a: /         x = b < c < d /     return
SrcFaultDepth2 ==
    [lines |-> <<<<"d", "e", "f", " ", "h", "(", ")", ":">>, <<" ", " ", " ", " ", "i",
      "f", " ", "a", ":">>, <<" ", " ", " ", " ", " ", " ", " ", " ", "x", " ", "=",
      " ", "b", " ", "<", " ", "c", " ", "<", " ", "d">>, <<" ", " ", " ", " ", "r",
      "e", "t", "u", "r", "n">>>>, tree |-> <<[t |-> "FunctionDef", name |-> "h",
      args |-> <<>>, body |-> <<[t |-> "If", test |-> [t |-> "Name", id |-> "a"],
      body |-> <<[t |-> "Assign", targets |-> <<[t |-> "Name", id |-> "x"]>>,
      value |-> [t |-> "Compare", left |-> [t |-> "Name", id |-> "b"], ops |-> <<"Lt",
      "Lt">>, comparators |-> <<[t |-> "Name", id |-> "c"], [t |-> "Name",
      id |-> "d"]>>, lineno |-> 3]]>>, orelse |-> <<>>], [t |-> "Return",
      value |-> None]>>, decorator_list |-> <<>>, returns |-> None]>>]

\* def h(): /     for i in range(3): /         if a: /             x = (1, 2)
SrcFaultDepth3 ==
    [lines |-> <<<<"d", "e", "f", " ", "h", "(", ")", ":">>, <<" ", " ", " ", " ", "f",
      "o", "r", " ", "i", " ", "i", "n", " ", "r", "a", "n", "g", "e", "(", "3", ")",
      ":">>, <<" ", " ", " ", " ", " ", " ", " ", " ", "i", "f", " ", "a", ":">>,
      <<" ", " ", " ", " ", " ", " ", " ", " ", " ", " ", " ", " ", "x", " ", "=", " ",
      "(", "1", ",", " ", "2", ")">>>>, tree |-> <<[t |-> "FunctionDef", name |-> "h",
      args |-> <<>>, body |-> <<[t |-> "For", target |-> [t |-> "Name", id |-> "i"],
      iter |-> [t |-> "Call", func |-> [t |-> "Name", id |-> "range"],
      args |-> <<[t |-> "Num", ntype |-> "int", n |-> 3, lineno |-> 2,
      col_offset |-> 19]>>, keywords |-> <<>>], body |-> <<[t |-> "If",
      test |-> [t |-> "Name", id |-> "a"], body |-> <<[t |-> "Assign",
      targets |-> <<[t |-> "Name", id |-> "x"]>>, value |-> [t |-> "Tuple",
      elts |-> <<[t |-> "Num", ntype |-> "int", n |-> 1, lineno |-> 4,
      col_offset |-> 17], [t |-> "Num", ntype |-> "int", n |-> 2, lineno |-> 4,
      col_offset |-> 20]>>]]>>, orelse |-> <<>>]>>]>>, decorator_list |-> <<>>,
      returns |-> None]>>]

\* def g(): /     pass / def h(): /     if a: /         pass /     else: /         foo()
SrcFaultSecondDef ==
    [lines |-> <<<<"d", "e", "f", " ", "g", "(", ")", ":">>, <<" ", " ", " ", " ", "p",
      "a", "s", "s">>, <<"d", "e", "f", " ", "h", "(", ")", ":">>, <<" ", " ", " ",
      " ", "i", "f", " ", "a", ":">>, <<" ", " ", " ", " ", " ", " ", " ", " ", "p",
      "a", "s", "s">>, <<" ", " ", " ", " ", "e", "l", "s", "e", ":">>, <<" ", " ",
      " ", " ", " ", " ", " ", " ", "f", "o", "o", "(", ")">>>>,
      tree |-> <<[t |-> "FunctionDef", name |-> "g", args |-> <<>>,
      body |-> <<[t |-> "Pass"]>>, decorator_list |-> <<>>, returns |-> None],
      [t |-> "FunctionDef", name |-> "h", args |-> <<>>, body |-> <<[t |-> "If",
      test |-> [t |-> "Name", id |-> "a"], body |-> <<[t |-> "Pass"]>>,
      orelse |-> <<[t |-> "Expr", value |-> [t |-> "Call", func |-> [t |-> "Name",
      id |-> "foo"], args |-> <<>>, keywords |-> <<>>]]>>]>>, decorator_list |-> <<>>,
      returns |-> None]>>]

Sources ==
    <<SrcPass, SrcSiblingBlocks, SrcNestedBlocks, SrcTwoDefs, SrcGlobalsOnly,
      SrcFaultTopLevel, SrcFaultDepth1, SrcFaultDepth2, SrcFaultDepth3,
      SrcFaultSecondDef>>

NoInput == [lines |-> <<>>, tree |-> <<>>]

Init ==
    /\ input = NoInput
    /\ inputLines = <<>>
    /\ stmtsIndent = InitialIndent
    /\ out = SRes("", "", InitialIndent, <<>>)
    /\ op = ""
    /\ runs = 0

Main(src) ==
    /\ runs < MaxRuns
    /\ input' = src
    /\ inputLines' = src.lines
    /\ out' = main(src, stmtsIndent)
    /\ stmtsIndent' = out'.indent
    /\ op' = "main"
    /\ runs' = runs + 1

Next == \E i \in 1..Len(Sources) : Main(Sources[i])

Spec == Init /\ [][Next]_vars

(***************************************************************************)
(* Properties of the statement translator and of main.                     *)
(***************************************************************************)
LogEntries(r) == {r.log[i] : i \in 1..Len(r.log)}

\* C4: in a translation that completes, the statements of a block nested in
\* another block are indented exactly two spaces deeper than the statements of
\* the enclosing block, and every parseStmts call returns with stmtsIndent
\* equal to its value at entry.
C4_NestedIndentation ==
    (op = "main" /\ out.exc = "") =>
        \A e \in LogEntries(out) :
            /\ e.encl # TopLevel => e.used = e.encl \o "  "
            /\ e.exit = e.entry

\* C4 witness: a translation has completed that rendered a block nested in a
\* nested block.
C4_NestedBlockRendered ==
    /\ op = "main" /\ out.exc = ""
    /\ \E e, f \in LogEntries(out) :
          /\ f.encl # TopLevel /\ e.encl = f.used
          /\ e.used = f.encl \o "    "

\* C5: translating a source text gives the same outcome whatever translations
\* were run before it in the process.
C5_NoStateLeak ==
    op = "main" =>
        LET fresh == main(input, InitialIndent)
        IN  out.exc = fresh.exc /\ out.text = fresh.text

(***************************************************************************)
(* SpecStmt: main applied to a source text `def f():' whose body holds one *)
(* statement of the pool below, placed as the last line of the text or     *)
(* followed by a pass line, directly in the function body or nested in the *)
(* body of an if statement.                                                *)
(***************************************************************************)
StmtKinds ==
    <<"pass", "break", "return", "returnValue", "assert", "throw", "decl", "assign",
      "augAssign", "if", "ifElse", "log", "send", "selfdestruct", "while", "continue",
      "delete", "raise", "import", "exprName", "exprNum", "exprAttr", "callName",
      "callAttr", "callSelf", "callDeep", "callSubscript", "callCall", "compare",
      "compareIn", "chained", "is", "isNot", "notIn", "not", "neg", "invert", "uadd",
      "unitDiv", "unitPow", "unitAdd", "unitFloorDiv", "kwName", "kwSelf", "kwLog",
      "kwSend", "kwSelfdestruct", "and2", "or2", "andOr", "and3", "or4", "range1",
      "range2", "range3", "range0", "rangeKw", "forList", "forSelfRange", "forCall",
      "forLiteral", "int", "negInt", "negIntSpaced", "hex", "negHex", "negHexArg",
      "negIntArg", "assign2", "assign3", "assignTuple", "declInit", "declInitExpr",
      "declInitCall">>

\* The source lines of the statement, from its own column on.
StmtSrc(k) ==
    CASE k = "pass" -> <<<<"p", "a", "s", "s">>>>
      [] k = "break" -> <<<<"b", "r", "e", "a", "k">>>>
      [] k = "return" -> <<<<"r", "e", "t", "u", "r", "n">>>>
      [] k = "returnValue" -> <<<<"r", "e", "t", "u", "r", "n", " ", "x">>>>
      [] k = "assert" -> <<<<"a", "s", "s", "e", "r", "t", " ", "a">>>>
      [] k = "throw" -> <<<<"t", "h", "r", "o", "w">>>>
      [] k = "decl" -> <<<<"x", ":", " ", "n", "u", "m">>>>
      [] k = "assign" -> <<<<"x", " ", "=", " ", "1">>>>
      [] k = "augAssign" -> <<<<"x", " ", "+", "=", " ", "1">>>>
      [] k = "if" -> <<<<"i", "f", " ", "a", ":">>, <<" ", " ", " ", " ", "p", "a",
            "s", "s">>>>
      [] k = "ifElse" -> <<<<"i", "f", " ", "a", ":">>, <<" ", " ", " ", " ", "p", "a",
            "s", "s">>, <<"e", "l", "s", "e", ":">>, <<" ", " ", " ", " ", "x", " ",
            "=", " ", "0", "x", "1", "F">>>>
      [] k = "log" -> <<<<"l", "o", "g", ".", "T", "(", "a", ",", " ", "1", ")">>>>
      [] k = "send" -> <<<<"s", "e", "n", "d", "(", "a", ",", " ", "1", ")">>>>
      [] k = "selfdestruct" -> <<<<"s", "e", "l", "f", "d", "e", "s", "t", "r", "u",
            "c", "t", "(", "a", ")">>>>
      [] k = "while" -> <<<<"w", "h", "i", "l", "e", " ", "a", ":">>, <<" ", " ", " ",
            " ", "p", "a", "s", "s">>>>
      [] k = "continue" -> <<<<"c", "o", "n", "t", "i", "n", "u", "e">>>>
      [] k = "delete" -> <<<<"d", "e", "l", " ", "x">>>>
      [] k = "raise" -> <<<<"r", "a", "i", "s", "e", " ", "x">>>>
      [] k = "import" -> <<<<"i", "m", "p", "o", "r", "t", " ", "x">>>>
      [] k = "exprName" -> <<<<"x">>>>
      [] k = "exprNum" -> <<<<"1">>>>
      [] k = "exprAttr" -> <<<<"a", ".", "b">>>>
      [] k = "callName" -> <<<<"f", "o", "o", "(", ")">>>>
      [] k = "callAttr" -> <<<<"a", ".", "b", "(", ")">>>>
      [] k = "callSelf" -> <<<<"s", "e", "l", "f", ".", "g", "(", "x", ")">>>>
      [] k = "callDeep" -> <<<<"a", ".", "b", ".", "c", "(", ")">>>>
      [] k = "callSubscript" -> <<<<"a", "[", "0", "]", ".", "b", "(", ")">>>>
      [] k = "callCall" -> <<<<"f", "(", ")", "(", ")">>>>
      [] k = "compare" -> <<<<"y", " ", "=", " ", "a", " ", "<", " ", "b">>>>
      [] k = "compareIn" -> <<<<"y", " ", "=", " ", "a", " ", "i", "n", " ", "b">>>>
      [] k = "chained" -> <<<<"y", " ", "=", " ", "a", " ", "<", " ", "b", " ", "<",
            " ", "c">>>>
      [] k = "is" -> <<<<"y", " ", "=", " ", "a", " ", "i", "s", " ", "b">>>>
      [] k = "isNot" -> <<<<"y", " ", "=", " ", "a", " ", "i", "s", " ", "n", "o", "t",
            " ", "b">>>>
      [] k = "notIn" -> <<<<"y", " ", "=", " ", "a", " ", "n", "o", "t", " ", "i", "n",
            " ", "b">>>>
      [] k = "not" -> <<<<"y", " ", "=", " ", "n", "o", "t", " ", "b">>>>
      [] k = "neg" -> <<<<"y", " ", "=", " ", "-", "b">>>>
      [] k = "invert" -> <<<<"y", " ", "=", " ", "~", "b">>>>
      [] k = "uadd" -> <<<<"y", " ", "=", " ", "+", "b">>>>
      [] k = "unitDiv" -> <<<<"x", ":", " ", "n", "u", "m", "(", "w", "e", "i", " ",
            "/", " ", "s", "e", "c", ")">>>>
      [] k = "unitPow" -> <<<<"x", ":", " ", "n", "u", "m", "(", "m", " ", "*", "*",
            " ", "2", ")">>>>
      [] k = "unitAdd" -> <<<<"x", ":", " ", "n", "u", "m", "(", "w", "e", "i", " ",
            "+", " ", "s", "e", "c", ")">>>>
      [] k = "unitFloorDiv" -> <<<<"x", ":", " ", "n", "u", "m", "(", "w", "e", "i",
            " ", "/", "/", " ", "s", "e", "c", ")">>>>
      [] k = "kwName" -> <<<<"y", " ", "=", " ", "f", "o", "o", "(", "a", ",", " ",
            "b", "=", "1", ")">>>>
      [] k = "kwSelf" -> <<<<"y", " ", "=", " ", "s", "e", "l", "f", ".", "f", "o",
            "o", "(", "a", ",", " ", "b", "=", "1", ")">>>>
      [] k = "kwLog" -> <<<<"l", "o", "g", ".", "T", "(", "a", ",", " ", "b", "=", "1",
            ")">>>>
      [] k = "kwSend" -> <<<<"s", "e", "n", "d", "(", "a", ",", " ", "v", "a", "l",
            "u", "e", "=", "1", ")">>>>
      [] k = "kwSelfdestruct" -> <<<<"s", "e", "l", "f", "d", "e", "s", "t", "r", "u",
            "c", "t", "(", "t", "o", "=", "a", ")">>>>
      [] k = "and2" -> <<<<"y", " ", "=", " ", "a", " ", "a", "n", "d", " ", "b">>>>
      [] k = "or2" -> <<<<"y", " ", "=", " ", "a", " ", "o", "r", " ", "b">>>>
      [] k = "andOr" -> <<<<"y", " ", "=", " ", "a", " ", "a", "n", "d", " ", "b", " ",
            "o", "r", " ", "c">>>>
      [] k = "and3" -> <<<<"y", " ", "=", " ", "a", " ", "a", "n", "d", " ", "b", " ",
            "a", "n", "d", " ", "c">>>>
      [] k = "or4" -> <<<<"y", " ", "=", " ", "a", " ", "o", "r", " ", "b", " ", "o",
            "r", " ", "c", " ", "o", "r", " ", "d">>>>
      [] k = "range1" -> <<<<"f", "o", "r", " ", "i", " ", "i", "n", " ", "r", "a",
            "n", "g", "e", "(", "n", ")", ":">>, <<" ", " ", " ", " ", "p", "a", "s",
            "s">>>>
      [] k = "range2" -> <<<<"f", "o", "r", " ", "i", " ", "i", "n", " ", "r", "a",
            "n", "g", "e", "(", "a", ",", " ", "b", ")", ":">>, <<" ", " ", " ", " ",
            "x", " ", "=", " ", "0", "x", "1", "F">>>>
      [] k = "range3" -> <<<<"f", "o", "r", " ", "i", " ", "i", "n", " ", "r", "a",
            "n", "g", "e", "(", "1", ",", " ", "5", ",", " ", "2", ")", ":">>, <<" ",
            " ", " ", " ", "p", "a", "s", "s">>>>
      [] k = "range0" -> <<<<"f", "o", "r", " ", "i", " ", "i", "n", " ", "r", "a",
            "n", "g", "e", "(", ")", ":">>, <<" ", " ", " ", " ", "p", "a", "s",
            "s">>>>
      [] k = "rangeKw" -> <<<<"f", "o", "r", " ", "i", " ", "i", "n", " ", "r", "a",
            "n", "g", "e", "(", "n", ",", " ", "s", "t", "e", "p", "=", "2", ")",
            ":">>, <<" ", " ", " ", " ", "p", "a", "s", "s">>>>
      [] k = "forList" -> <<<<"f", "o", "r", " ", "i", " ", "i", "n", " ", "x", "s",
            ":">>, <<" ", " ", " ", " ", "p", "a", "s", "s">>>>
      [] k = "forSelfRange" -> <<<<"f", "o", "r", " ", "i", " ", "i", "n", " ", "s",
            "e", "l", "f", ".", "r", "a", "n", "g", "e", "(", "3", ")", ":">>, <<" ",
            " ", " ", " ", "p", "a", "s", "s">>>>
      [] k = "forCall" -> <<<<"f", "o", "r", " ", "i", " ", "i", "n", " ", "f", "o",
            "o", "(", "3", ")", ":">>, <<" ", " ", " ", " ", "p", "a", "s", "s">>>>
      [] k = "forLiteral" -> <<<<"f", "o", "r", " ", "i", " ", "i", "n", " ", "[", "1",
            ",", " ", "2", "]", ":">>, <<" ", " ", " ", " ", "b", "r", "e", "a",
            "k">>>>
      [] k = "int" -> <<<<"x", " ", "=", " ", "5">>>>
      [] k = "negInt" -> <<<<"x", " ", "=", " ", "-", "5">>>>
      [] k = "negIntSpaced" -> <<<<"x", " ", "=", " ", "-", " ", "1", "7">>>>
      [] k = "hex" -> <<<<"x", " ", "=", " ", "0", "x", "1", "0">>>>
      [] k = "negHex" -> <<<<"x", " ", "=", " ", "-", "0", "x", "1", "0">>>>
      [] k = "negHexArg" -> <<<<"s", "e", "n", "d", "(", "a", ",", " ", "-", "0", "x",
            "1", "F", ")">>>>
      [] k = "negIntArg" -> <<<<"s", "e", "n", "d", "(", "a", ",", " ", "-", "3",
            ")">>>>
      [] k = "assign2" -> <<<<"a", " ", "=", " ", "b", " ", "=", " ", "1">>>>
      [] k = "assign3" -> <<<<"a", " ", "=", " ", "s", "e", "l", "f", ".", "b", " ",
            "=", " ", "c", "[", "0", "]", " ", "=", " ", "x">>>>
      [] k = "assignTuple" -> <<<<"a", ",", " ", "b", " ", "=", " ", "c">>>>
      [] k = "declInit" -> <<<<"x", ":", " ", "n", "u", "m", " ", "=", " ", "5">>>>
      [] k = "declInitExpr" -> <<<<"x", ":", " ", "n", "u", "m", " ", "=", " ", "y",
            " ", "+", " ", "1">>>>
      [] k = "declInitCall" -> <<<<"x", ":", " ", "n", "u", "m", " ", "=", " ", "f",
            "o", "o", "(", "y", ")">>>>

\* The node ast.parse gives for the statement when it starts at column col
\* (counted from 0) of line `line'.
StmtNode(k, line, col) ==
      \* pass
    CASE k = "pass" -> [t |-> "Pass"]
      \* break
      [] k = "break" -> [t |-> "Break"]
      \* return
      [] k = "return" -> [t |-> "Return", value |-> None]
      \* return x
      [] k = "returnValue" -> [t |-> "Return", value |-> [t |-> "Name", id |-> "x"]]
      \* assert a
      [] k = "assert" -> [t |-> "Assert", test |-> [t |-> "Name", id |-> "a"]]
      \* throw
      [] k = "throw" -> [t |-> "Expr", value |-> [t |-> "Name", id |-> "throw"]]
      \* x: num
      [] k = "decl" -> [t |-> "AnnAssign", target |-> [t |-> "Name", id |-> "x"],
            annotation |-> [t |-> "Name", id |-> "num"], value |-> None]
      \* x = 1
      [] k = "assign" -> [t |-> "Assign", targets |-> <<[t |-> "Name", id |-> "x"]>>,
            value |-> [t |-> "Num", ntype |-> "int", n |-> 1, lineno |-> line,
            col_offset |-> col + 4]]
      \* x += 1
      [] k = "augAssign" -> [t |-> "AugAssign", op |-> "Add", target |-> [t |-> "Name",
            id |-> "x"], value |-> [t |-> "Num", ntype |-> "int", n |-> 1,
            lineno |-> line, col_offset |-> col + 5]]
      \* if a: /     pass
      [] k = "if" -> [t |-> "If", test |-> [t |-> "Name", id |-> "a"],
            body |-> <<[t |-> "Pass"]>>, orelse |-> <<>>]
      \* if a: /     pass / else: /     x = 0x1F
      [] k = "ifElse" -> [t |-> "If", test |-> [t |-> "Name", id |-> "a"],
            body |-> <<[t |-> "Pass"]>>, orelse |-> <<[t |-> "Assign",
            targets |-> <<[t |-> "Name", id |-> "x"]>>, value |-> [t |-> "Num",
            ntype |-> "int", n |-> 31, lineno |-> line + 3,
            col_offset |-> col + 8]]>>]
      \* log.T(a, 1)
      [] k = "log" -> [t |-> "Expr", value |-> [t |-> "Call",
            func |-> [t |-> "Attribute", value |-> [t |-> "Name", id |-> "log"],
            attr |-> "T"], args |-> <<[t |-> "Name", id |-> "a"], [t |-> "Num",
            ntype |-> "int", n |-> 1, lineno |-> line, col_offset |-> col + 9]>>,
            keywords |-> <<>>]]
      \* send(a, 1)
      [] k = "send" -> [t |-> "Expr", value |-> [t |-> "Call", func |-> [t |-> "Name",
            id |-> "send"], args |-> <<[t |-> "Name", id |-> "a"], [t |-> "Num",
            ntype |-> "int", n |-> 1, lineno |-> line, col_offset |-> col + 8]>>,
            keywords |-> <<>>]]
      \* selfdestruct(a)
      [] k = "selfdestruct" -> [t |-> "Expr", value |-> [t |-> "Call",
            func |-> [t |-> "Name", id |-> "selfdestruct"], args |-> <<[t |-> "Name",
            id |-> "a"]>>, keywords |-> <<>>]]
      \* while a: /     pass
      [] k = "while" -> [t |-> "While", test |-> [t |-> "Name", id |-> "a"],
            body |-> <<[t |-> "Pass"]>>]
      \* continue
      [] k = "continue" -> [t |-> "Continue"]
      \* del x
      [] k = "delete" -> [t |-> "Delete"]
      \* raise x
      [] k = "raise" -> [t |-> "Raise"]
      \* import x
      [] k = "import" -> [t |-> "Import"]
      \* x
      [] k = "exprName" -> [t |-> "Expr", value |-> [t |-> "Name", id |-> "x"]]
      \* 1
      [] k = "exprNum" -> [t |-> "Expr", value |-> [t |-> "Num", ntype |-> "int",
            n |-> 1, lineno |-> line, col_offset |-> col]]
      \* a.b
      [] k = "exprAttr" -> [t |-> "Expr", value |-> [t |-> "Attribute",
            value |-> [t |-> "Name", id |-> "a"], attr |-> "b"]]
      \* foo()
      [] k = "callName" -> [t |-> "Expr", value |-> [t |-> "Call",
            func |-> [t |-> "Name", id |-> "foo"], args |-> <<>>, keywords |-> <<>>]]
      \* a.b()
      [] k = "callAttr" -> [t |-> "Expr", value |-> [t |-> "Call",
            func |-> [t |-> "Attribute", value |-> [t |-> "Name", id |-> "a"],
            attr |-> "b"], args |-> <<>>, keywords |-> <<>>]]
      \* self.g(x)
      [] k = "callSelf" -> [t |-> "Expr", value |-> [t |-> "Call",
            func |-> [t |-> "Attribute", value |-> [t |-> "Name", id |-> "self"],
            attr |-> "g"], args |-> <<[t |-> "Name", id |-> "x"]>>,
            keywords |-> <<>>]]
      \* a.b.c()
      [] k = "callDeep" -> [t |-> "Expr", value |-> [t |-> "Call",
            func |-> [t |-> "Attribute", value |-> [t |-> "Attribute",
            value |-> [t |-> "Name", id |-> "a"], attr |-> "b"], attr |-> "c"],
            args |-> <<>>, keywords |-> <<>>]]
      \* a[0].b()
      [] k = "callSubscript" -> [t |-> "Expr", value |-> [t |-> "Call",
            func |-> [t |-> "Attribute", value |-> [t |-> "Subscript",
            value |-> [t |-> "Name", id |-> "a"], slice |-> [t |-> "Index",
            value |-> [t |-> "Num", ntype |-> "int", n |-> 0, lineno |-> line,
            col_offset |-> col + 2]]], attr |-> "b"], args |-> <<>>,
            keywords |-> <<>>]]
      \* f()()
      [] k = "callCall" -> [t |-> "Expr", value |-> [t |-> "Call",
            func |-> [t |-> "Call", func |-> [t |-> "Name", id |-> "f"], args |-> <<>>,
            keywords |-> <<>>], args |-> <<>>, keywords |-> <<>>]]
      \* y = a < b
      [] k = "compare" -> [t |-> "Assign", targets |-> <<[t |-> "Name", id |-> "y"]>>,
            value |-> [t |-> "Compare", left |-> [t |-> "Name", id |-> "a"],
            ops |-> <<"Lt">>, comparators |-> <<[t |-> "Name", id |-> "b"]>>,
            lineno |-> line]]
      \* y = a in b
      [] k = "compareIn" -> [t |-> "Assign", targets |-> <<[t |-> "Name",
            id |-> "y"]>>, value |-> [t |-> "Compare", left |-> [t |-> "Name",
            id |-> "a"], ops |-> <<"In">>, comparators |-> <<[t |-> "Name",
            id |-> "b"]>>, lineno |-> line]]
      \* y = a < b < c
      [] k = "chained" -> [t |-> "Assign", targets |-> <<[t |-> "Name", id |-> "y"]>>,
            value |-> [t |-> "Compare", left |-> [t |-> "Name", id |-> "a"],
            ops |-> <<"Lt", "Lt">>, comparators |-> <<[t |-> "Name", id |-> "b"],
            [t |-> "Name", id |-> "c"]>>, lineno |-> line]]
      \* y = a is b
      [] k = "is" -> [t |-> "Assign", targets |-> <<[t |-> "Name", id |-> "y"]>>,
            value |-> [t |-> "Compare", left |-> [t |-> "Name", id |-> "a"],
            ops |-> <<"Is">>, comparators |-> <<[t |-> "Name", id |-> "b"]>>,
            lineno |-> line]]
      \* y = a is not b
      [] k = "isNot" -> [t |-> "Assign", targets |-> <<[t |-> "Name", id |-> "y"]>>,
            value |-> [t |-> "Compare", left |-> [t |-> "Name", id |-> "a"],
            ops |-> <<"IsNot">>, comparators |-> <<[t |-> "Name", id |-> "b"]>>,
            lineno |-> line]]
      \* y = a not in b
      [] k = "notIn" -> [t |-> "Assign", targets |-> <<[t |-> "Name", id |-> "y"]>>,
            value |-> [t |-> "Compare", left |-> [t |-> "Name", id |-> "a"],
            ops |-> <<"NotIn">>, comparators |-> <<[t |-> "Name", id |-> "b"]>>,
            lineno |-> line]]
      \* y = not b
      [] k = "not" -> [t |-> "Assign", targets |-> <<[t |-> "Name", id |-> "y"]>>,
            value |-> [t |-> "UnaryOp", op |-> "Not", operand |-> [t |-> "Name",
            id |-> "b"]]]
      \* y = -b
      [] k = "neg" -> [t |-> "Assign", targets |-> <<[t |-> "Name", id |-> "y"]>>,
            value |-> [t |-> "UnaryOp", op |-> "USub", operand |-> [t |-> "Name",
            id |-> "b"]]]
      \* y = ~b
      [] k = "invert" -> [t |-> "Assign", targets |-> <<[t |-> "Name", id |-> "y"]>>,
            value |-> [t |-> "UnaryOp", op |-> "Invert", operand |-> [t |-> "Name",
            id |-> "b"]]]
      \* y = +b
      [] k = "uadd" -> [t |-> "Assign", targets |-> <<[t |-> "Name", id |-> "y"]>>,
            value |-> [t |-> "UnaryOp", op |-> "UAdd", operand |-> [t |-> "Name",
            id |-> "b"]]]
      \* x: num(wei / sec)
      [] k = "unitDiv" -> [t |-> "AnnAssign", target |-> [t |-> "Name", id |-> "x"],
            annotation |-> [t |-> "Call", func |-> [t |-> "Name", id |-> "num"],
            args |-> <<[t |-> "BinOp", op |-> "Div", left |-> [t |-> "Name",
            id |-> "wei"], right |-> [t |-> "Name", id |-> "sec"]]>>,
            keywords |-> <<>>], value |-> None]
      \* x: num(m ** 2)
      [] k = "unitPow" -> [t |-> "AnnAssign", target |-> [t |-> "Name", id |-> "x"],
            annotation |-> [t |-> "Call", func |-> [t |-> "Name", id |-> "num"],
            args |-> <<[t |-> "BinOp", op |-> "Pow", left |-> [t |-> "Name",
            id |-> "m"], right |-> [t |-> "Num", ntype |-> "int", n |-> 2,
            lineno |-> line, col_offset |-> col + 12]]>>, keywords |-> <<>>],
            value |-> None]
      \* x: num(wei + sec)
      [] k = "unitAdd" -> [t |-> "AnnAssign", target |-> [t |-> "Name", id |-> "x"],
            annotation |-> [t |-> "Call", func |-> [t |-> "Name", id |-> "num"],
            args |-> <<[t |-> "BinOp", op |-> "Add", left |-> [t |-> "Name",
            id |-> "wei"], right |-> [t |-> "Name", id |-> "sec"]]>>,
            keywords |-> <<>>], value |-> None]
      \* x: num(wei // sec)
      [] k = "unitFloorDiv" -> [t |-> "AnnAssign", target |-> [t |-> "Name",
            id |-> "x"], annotation |-> [t |-> "Call", func |-> [t |-> "Name",
            id |-> "num"], args |-> <<[t |-> "BinOp", op |-> "FloorDiv",
            left |-> [t |-> "Name", id |-> "wei"], right |-> [t |-> "Name",
            id |-> "sec"]]>>, keywords |-> <<>>], value |-> None]
      \* y = foo(a, b=1)
      [] k = "kwName" -> [t |-> "Assign", targets |-> <<[t |-> "Name", id |-> "y"]>>,
            value |-> [t |-> "Call", func |-> [t |-> "Name", id |-> "foo"],
            args |-> <<[t |-> "Name", id |-> "a"]>>, keywords |-> <<[t |-> "keyword",
            value |-> [t |-> "Num", ntype |-> "int", n |-> 1, lineno |-> line,
            col_offset |-> col + 13]]>>]]
      \* y = self.foo(a, b=1)
      [] k = "kwSelf" -> [t |-> "Assign", targets |-> <<[t |-> "Name", id |-> "y"]>>,
            value |-> [t |-> "Call", func |-> [t |-> "Attribute",
            value |-> [t |-> "Name", id |-> "self"], attr |-> "foo"],
            args |-> <<[t |-> "Name", id |-> "a"]>>, keywords |-> <<[t |-> "keyword",
            value |-> [t |-> "Num", ntype |-> "int", n |-> 1, lineno |-> line,
            col_offset |-> col + 18]]>>]]
      \* log.T(a, b=1)
      [] k = "kwLog" -> [t |-> "Expr", value |-> [t |-> "Call",
            func |-> [t |-> "Attribute", value |-> [t |-> "Name", id |-> "log"],
            attr |-> "T"], args |-> <<[t |-> "Name", id |-> "a"]>>,
            keywords |-> <<[t |-> "keyword", value |-> [t |-> "Num", ntype |-> "int",
            n |-> 1, lineno |-> line, col_offset |-> col + 11]]>>]]
      \* send(a, value=1)
      [] k = "kwSend" -> [t |-> "Expr", value |-> [t |-> "Call",
            func |-> [t |-> "Name", id |-> "send"], args |-> <<[t |-> "Name",
            id |-> "a"]>>, keywords |-> <<[t |-> "keyword", value |-> [t |-> "Num",
            ntype |-> "int", n |-> 1, lineno |-> line, col_offset |-> col + 14]]>>]]
      \* selfdestruct(to=a)
      [] k = "kwSelfdestruct" -> [t |-> "Expr", value |-> [t |-> "Call",
            func |-> [t |-> "Name", id |-> "selfdestruct"], args |-> <<>>,
            keywords |-> <<[t |-> "keyword", value |-> [t |-> "Name", id |-> "a"]]>>]]
      \* y = a and b
      [] k = "and2" -> [t |-> "Assign", targets |-> <<[t |-> "Name", id |-> "y"]>>,
            value |-> [t |-> "BoolOp", op |-> "And", values |-> <<[t |-> "Name",
            id |-> "a"], [t |-> "Name", id |-> "b"]>>]]
      \* y = a or b
      [] k = "or2" -> [t |-> "Assign", targets |-> <<[t |-> "Name", id |-> "y"]>>,
            value |-> [t |-> "BoolOp", op |-> "Or", values |-> <<[t |-> "Name",
            id |-> "a"], [t |-> "Name", id |-> "b"]>>]]
      \* y = a and b or c
      [] k = "andOr" -> [t |-> "Assign", targets |-> <<[t |-> "Name", id |-> "y"]>>,
            value |-> [t |-> "BoolOp", op |-> "Or", values |-> <<[t |-> "BoolOp",
            op |-> "And", values |-> <<[t |-> "Name", id |-> "a"], [t |-> "Name",
            id |-> "b"]>>], [t |-> "Name", id |-> "c"]>>]]
      \* y = a and b and c
      [] k = "and3" -> [t |-> "Assign", targets |-> <<[t |-> "Name", id |-> "y"]>>,
            value |-> [t |-> "BoolOp", op |-> "And", values |-> <<[t |-> "Name",
            id |-> "a"], [t |-> "Name", id |-> "b"], [t |-> "Name", id |-> "c"]>>]]
      \* y = a or b or c or d
      [] k = "or4" -> [t |-> "Assign", targets |-> <<[t |-> "Name", id |-> "y"]>>,
            value |-> [t |-> "BoolOp", op |-> "Or", values |-> <<[t |-> "Name",
            id |-> "a"], [t |-> "Name", id |-> "b"], [t |-> "Name", id |-> "c"],
            [t |-> "Name", id |-> "d"]>>]]
      \* for i in range(n): /     pass
      [] k = "range1" -> [t |-> "For", target |-> [t |-> "Name", id |-> "i"],
            iter |-> [t |-> "Call", func |-> [t |-> "Name", id |-> "range"],
            args |-> <<[t |-> "Name", id |-> "n"]>>, keywords |-> <<>>],
            body |-> <<[t |-> "Pass"]>>]
      \* for i in range(a, b): /     x = 0x1F
      [] k = "range2" -> [t |-> "For", target |-> [t |-> "Name", id |-> "i"],
            iter |-> [t |-> "Call", func |-> [t |-> "Name", id |-> "range"],
            args |-> <<[t |-> "Name", id |-> "a"], [t |-> "Name", id |-> "b"]>>,
            keywords |-> <<>>], body |-> <<[t |-> "Assign",
            targets |-> <<[t |-> "Name", id |-> "x"]>>, value |-> [t |-> "Num",
            ntype |-> "int", n |-> 31, lineno |-> line + 1,
            col_offset |-> col + 8]]>>]
      \* for i in range(1, 5, 2): /     pass
      [] k = "range3" -> [t |-> "For", target |-> [t |-> "Name", id |-> "i"],
            iter |-> [t |-> "Call", func |-> [t |-> "Name", id |-> "range"],
            args |-> <<[t |-> "Num", ntype |-> "int", n |-> 1, lineno |-> line,
            col_offset |-> col + 15], [t |-> "Num", ntype |-> "int", n |-> 5,
            lineno |-> line, col_offset |-> col + 18], [t |-> "Num", ntype |-> "int",
            n |-> 2, lineno |-> line, col_offset |-> col + 21]>>, keywords |-> <<>>],
            body |-> <<[t |-> "Pass"]>>]
      \* for i in range(): /     pass
      [] k = "range0" -> [t |-> "For", target |-> [t |-> "Name", id |-> "i"],
            iter |-> [t |-> "Call", func |-> [t |-> "Name", id |-> "range"],
            args |-> <<>>, keywords |-> <<>>], body |-> <<[t |-> "Pass"]>>]
      \* for i in range(n, step=2): /     pass
      [] k = "rangeKw" -> [t |-> "For", target |-> [t |-> "Name", id |-> "i"],
            iter |-> [t |-> "Call", func |-> [t |-> "Name", id |-> "range"],
            args |-> <<[t |-> "Name", id |-> "n"]>>, keywords |-> <<[t |-> "keyword",
            value |-> [t |-> "Num", ntype |-> "int", n |-> 2, lineno |-> line,
            col_offset |-> col + 23]]>>], body |-> <<[t |-> "Pass"]>>]
      \* for i in xs: /     pass
      [] k = "forList" -> [t |-> "For", target |-> [t |-> "Name", id |-> "i"],
            iter |-> [t |-> "Name", id |-> "xs"], body |-> <<[t |-> "Pass"]>>]
      \* for i in self.range(3): /     pass
      [] k = "forSelfRange" -> [t |-> "For", target |-> [t |-> "Name", id |-> "i"],
            iter |-> [t |-> "Call", func |-> [t |-> "Attribute",
            value |-> [t |-> "Name", id |-> "self"], attr |-> "range"],
            args |-> <<[t |-> "Num", ntype |-> "int", n |-> 3, lineno |-> line,
            col_offset |-> col + 20]>>, keywords |-> <<>>],
            body |-> <<[t |-> "Pass"]>>]
      \* for i in foo(3): /     pass
      [] k = "forCall" -> [t |-> "For", target |-> [t |-> "Name", id |-> "i"],
            iter |-> [t |-> "Call", func |-> [t |-> "Name", id |-> "foo"],
            args |-> <<[t |-> "Num", ntype |-> "int", n |-> 3, lineno |-> line,
            col_offset |-> col + 13]>>, keywords |-> <<>>],
            body |-> <<[t |-> "Pass"]>>]
      \* for i in [1, 2]: /     break
      [] k = "forLiteral" -> [t |-> "For", target |-> [t |-> "Name", id |-> "i"],
            iter |-> [t |-> "List", elts |-> <<[t |-> "Num", ntype |-> "int", n |-> 1,
            lineno |-> line, col_offset |-> col + 10], [t |-> "Num", ntype |-> "int",
            n |-> 2, lineno |-> line, col_offset |-> col + 13]>>],
            body |-> <<[t |-> "Break"]>>]
      \* x = 5
      [] k = "int" -> [t |-> "Assign", targets |-> <<[t |-> "Name", id |-> "x"]>>,
            value |-> [t |-> "Num", ntype |-> "int", n |-> 5, lineno |-> line,
            col_offset |-> col + 4]]
      \* x = -5
      [] k = "negInt" -> [t |-> "Assign", targets |-> <<[t |-> "Name", id |-> "x"]>>,
            value |-> [t |-> "UnaryOp", op |-> "USub", operand |-> [t |-> "Num",
            ntype |-> "int", n |-> 5, lineno |-> line, col_offset |-> col + 5]]]
      \* x = - 17
      [] k = "negIntSpaced" -> [t |-> "Assign", targets |-> <<[t |-> "Name",
            id |-> "x"]>>, value |-> [t |-> "UnaryOp", op |-> "USub",
            operand |-> [t |-> "Num", ntype |-> "int", n |-> 17, lineno |-> line,
            col_offset |-> col + 6]]]
      \* x = 0x10
      [] k = "hex" -> [t |-> "Assign", targets |-> <<[t |-> "Name", id |-> "x"]>>,
            value |-> [t |-> "Num", ntype |-> "int", n |-> 16, lineno |-> line,
            col_offset |-> col + 4]]
      \* x = -0x10
      [] k = "negHex" -> [t |-> "Assign", targets |-> <<[t |-> "Name", id |-> "x"]>>,
            value |-> [t |-> "UnaryOp", op |-> "USub", operand |-> [t |-> "Num",
            ntype |-> "int", n |-> 16, lineno |-> line, col_offset |-> col + 5]]]
      \* send(a, -0x1F)
      [] k = "negHexArg" -> [t |-> "Expr", value |-> [t |-> "Call",
            func |-> [t |-> "Name", id |-> "send"], args |-> <<[t |-> "Name",
            id |-> "a"], [t |-> "UnaryOp", op |-> "USub", operand |-> [t |-> "Num",
            ntype |-> "int", n |-> 31, lineno |-> line, col_offset |-> col + 9]]>>,
            keywords |-> <<>>]]
      \* send(a, -3)
      [] k = "negIntArg" -> [t |-> "Expr", value |-> [t |-> "Call",
            func |-> [t |-> "Name", id |-> "send"], args |-> <<[t |-> "Name",
            id |-> "a"], [t |-> "UnaryOp", op |-> "USub", operand |-> [t |-> "Num",
            ntype |-> "int", n |-> 3, lineno |-> line, col_offset |-> col + 9]]>>,
            keywords |-> <<>>]]
      \* a = b = 1
      [] k = "assign2" -> [t |-> "Assign", targets |-> <<[t |-> "Name", id |-> "a"],
            [t |-> "Name", id |-> "b"]>>, value |-> [t |-> "Num", ntype |-> "int",
            n |-> 1, lineno |-> line, col_offset |-> col + 8]]
      \* a = self.b = c[0] = x
      [] k = "assign3" -> [t |-> "Assign", targets |-> <<[t |-> "Name", id |-> "a"],
            [t |-> "Attribute", value |-> [t |-> "Name", id |-> "self"], attr |-> "b"],
            [t |-> "Subscript", value |-> [t |-> "Name", id |-> "c"],
            slice |-> [t |-> "Index", value |-> [t |-> "Num", ntype |-> "int", n |-> 0,
            lineno |-> line, col_offset |-> col + 15]]]>>, value |-> [t |-> "Name",
            id |-> "x"]]
      \* a, b = c
      [] k = "assignTuple" -> [t |-> "Assign", targets |-> <<[t |-> "Tuple",
            elts |-> <<[t |-> "Name", id |-> "a"], [t |-> "Name", id |-> "b"]>>]>>,
            value |-> [t |-> "Name", id |-> "c"]]
      \* x: num = 5
      [] k = "declInit" -> [t |-> "AnnAssign", target |-> [t |-> "Name", id |-> "x"],
            annotation |-> [t |-> "Name", id |-> "num"], value |-> [t |-> "Num",
            ntype |-> "int", n |-> 5, lineno |-> line, col_offset |-> col + 9]]
      \* x: num = y + 1
      [] k = "declInitExpr" -> [t |-> "AnnAssign", target |-> [t |-> "Name",
            id |-> "x"], annotation |-> [t |-> "Name", id |-> "num"],
            value |-> [t |-> "BinOp", op |-> "Add", left |-> [t |-> "Name",
            id |-> "y"], right |-> [t |-> "Num", ntype |-> "int", n |-> 1,
            lineno |-> line, col_offset |-> col + 13]]]
      \* x: num = foo(y)
      [] k = "declInitCall" -> [t |-> "AnnAssign", target |-> [t |-> "Name",
            id |-> "x"], annotation |-> [t |-> "Name", id |-> "num"],
            value |-> [t |-> "Call", func |-> [t |-> "Name", id |-> "foo"],
            args |-> <<[t |-> "Name", id |-> "y"]>>, keywords |-> <<>>]]

StmtPlaces == <<"last", "followed", "nested", "nestedFollowed">>

IsNested(place) == place \in {"nested", "nestedFollowed"}

IsFollowed(place) == place \in {"followed", "nestedFollowed"}

IndentLines(ls, n) == [i \in 1..Len(ls) |-> [j \in 1..n |-> " "] \o ls[i]]

\* The source text and the tree ast.parse gives for it.
StmtProgram(k, place) ==
    LET stmt == IF IsNested(place)
                THEN [t |-> "If", test |-> [t |-> "Name", id |-> "c"],
                      body |-> <<StmtNode(k, 3, 8)>>, orelse |-> <<>>]
                ELSE StmtNode(k, 2, 4)
    IN  [kind  |-> k,
         place |-> place,
         lines |-> << <<"d", "e", "f", " ", "f", "(", ")", ":">> >>
                   \o (IF IsNested(place)
                       THEN << <<" ", " ", " ", " ", "i", "f", " ", "c", ":">> >>
                       ELSE <<>>)
                   \o IndentLines(StmtSrc(k), IF IsNested(place) THEN 8 ELSE 4)
                   \o (IF IsFollowed(place)
                       THEN << <<" ", " ", " ", " ", "p", "a", "s", "s">> >>
                       ELSE <<>>),
         tree  |-> <<[t |-> "FunctionDef", name |-> "f", args |-> <<>>,
                      body |-> <<stmt>> \o (IF IsFollowed(place) THEN <<[t |-> "Pass"]>>
                                            ELSE <<>>),
                      decorator_list |-> <<>>, returns |-> None]>>]

InitStmt ==
    /\ \E i \in 1..Len(StmtKinds), j \in 1..Len(StmtPlaces) :
           input = StmtProgram(StmtKinds[i], StmtPlaces[j])
    /\ inputLines = <<>>
    /\ stmtsIndent = InitialIndent
    /\ out = NoOut
    /\ op = ""
    /\ runs = 0

NextStmt == op = "" /\ Main(input)

SpecStmt == InitStmt /\ [][NextStmt]_vars

(***************************************************************************)
(* Properties of main on the statements of the pool.                       *)
(***************************************************************************)
\* The indentation of the statement's text in the Program.
StmtIndentAt(place) == IF IsNested(place) THEN "      " ELSE "    "

\* The Program of `def f():' when its statement translates to the text stmt.
FunctionText(place, stmt) ==
    "%pgm(, , ,\n  %fdecl(, f, , %void,\n    "
    \o (IF IsNested(place) THEN "%if(%var(c),\n      " \o stmt \o ")" ELSE stmt)
    \o (IF IsFollowed(place) THEN "\n    %pass" ELSE "")
    \o ")\n)"

\* The statements of the pool whose shape is none of: annotated declaration,
\* assignment, augmented assignment, if, for, break, pass, return, assert,
\* throw, log.<Event>(...), send(...), selfdestruct(...).
UnsupportedShapeKinds ==
    {"while", "continue", "delete", "raise", "import", "exprName", "exprNum",
     "exprAttr", "callName", "callAttr", "callSelf", "callDeep", "callSubscript",
     "callCall"}

\* C12: a statement whose shape is not one of the supported ones makes the
\* translation abort with ParserException at any nesting depth, and a
\* translation that aborts produces no Program text.
C12_UnsupportedStmtFatal ==
    op = "main" =>
        /\ input.kind \in UnsupportedShapeKinds => out.exc = "ParserException"
        /\ out.exc # "" => out.text = ""

\* The statements of the pool that hold a recognized but unsupported detail: a
\* chained comparison, is / is not / not in, bitwise invert, unary plus, a unit
\* expression with an operator other than *, / and **.
RejectedDetailKinds ==
    {"chained", "is", "isNot", "notIn", "invert", "uadd", "unitAdd", "unitFloorDiv"}

\* C13: every rejection of a recognized but unsupported detail surfaces as
\* ParserException and as no other exception type, on whatever source line the
\* construct stands.
C13_SingleErrorKind ==
    (op = "main" /\ input.kind \in RejectedDetailKinds) =>
        out.exc = "ParserException" /\ out.text = ""

\* The statements of the pool with a call that carries a keyword argument: a
\* bare-name call expression, an internal call, and the call statements log,
\* send and selfdestruct.
KeywordCallKinds == {"kwName", "kwSelf", "kwLog", "kwSend", "kwSelfdestruct"}

\* C14: a call that carries a keyword argument aborts the translation with
\* ParserException, for every call shape the translator accepts; the keyword
\* argument is never dropped from the output.
C14_KeywordArgumentFatal ==
    (op = "main" /\ input.kind \in KeywordCallKinds) =>
        out.exc = "ParserException" /\ out.text = ""

\* The translation of the two-operand boolean expressions of the pool.
BoolOpText(k) ==
    CASE k = "and2"  -> "%assign(%var(y), %boolop(%and, %var(a), %var(b)))"
      [] k = "or2"   -> "%assign(%var(y), %boolop(%or, %var(a), %var(b)))"
      [] k = "andOr" ->
           "%assign(%var(y), %boolop(%or, %boolop(%and, %var(a), %var(b)), %var(c)))"

\* C15: a boolean expression with exactly two operands translates to
\* %boolop(op, left, right); one with three or more operands aborts the
\* translation with ParserException, so that no operand is ever omitted.
C15_BoolOpTwoOperands ==
    op = "main" =>
        /\ input.kind \in {"and2", "or2", "andOr"} =>
              /\ out.exc = ""
              /\ out.text = FunctionText(input.place, BoolOpText(input.kind))
        /\ input.kind \in {"and3", "or4"} =>
              out.exc = "ParserException" /\ out.text = ""

\* The term of the for loops of the pool with a one- or two-argument range or
\* with another iterable, for a loop indented by ind.
ForText(k, ind) ==
    CASE k = "range1"       -> "%forrange(i, %var(n),\n" \o ind \o "  %pass)"
      [] k = "range2"       -> "%forrange(i, %var(a), %var(b),\n" \o ind
                               \o "  %assign(%var(x), %hex(\"1F\")))"
      [] k = "forList"      -> "%forlist(i, %var(xs),\n" \o ind \o "  %pass)"
      [] k = "forSelfRange" -> "%forlist(i, %icall(range, 3),\n" \o ind \o "  %pass)"
      [] k = "forCall"      -> "%forlist(i, %foo(3),\n" \o ind \o "  %pass)"
      [] k = "forLiteral"   -> "%forlist(i, %list(1 2),\n" \o ind \o "  %break)"

\* The loop over the iterable translated as an expression, for the range calls
\* of the pool with no or three arguments.
ForListText(k, ind) ==
    CASE k = "range0" -> "%forlist(i, %range(),\n" \o ind \o "  %pass)"
      [] k = "range3" -> "%forlist(i, %range(1, 5, 2),\n" \o ind \o "  %pass)"

\* C16: range(n) renders %forrange(var, T(n), body), range(a, b) renders
\* %forrange(var, T(a), T(b), body) and an iterable that is not a call to the
\* bare name range renders %forlist(var, T(iterable), body); a %forrange term is
\* produced only for a range call with one or two arguments: for a range call
\* with another number of arguments, or with a keyword argument, the outcome
\* is a fault or the %forlist term over the translated call.
C16_ForLoops ==
    op = "main" =>
        /\ input.kind \in {"range1", "range2", "forList", "forSelfRange", "forCall",
                           "forLiteral"} =>
              /\ out.exc = ""
              /\ out.text = FunctionText(input.place,
                                         ForText(input.kind, StmtIndentAt(input.place)))
        /\ input.kind \in {"range0", "range3"} =>
              \/ out.exc # ""
              \/ out.text = FunctionText(input.place,
                                ForListText(input.kind, StmtIndentAt(input.place)))
        /\ input.kind = "rangeKw" => out.exc # ""

\* The statements of the pool with a decimal integer literal, signed or not,
\* and their translation.
DecimalLiteralText(k) ==
    CASE k = "int"          -> "%assign(%var(x), 5)"
      [] k = "negInt"       -> "%assign(%var(x), -5)"
      [] k = "negIntSpaced" -> "%assign(%var(x), -17)"
      [] k = "negIntArg"    -> "%send(%var(a), -3)"

\* What the statements with a negated 0x literal would translate to if the
\* sign were lost.
UnsignedHexText(k) ==
    CASE k = "negHex"    -> "%assign(%var(x), %hex(\"10\"))"
      [] k = "negHexArg" -> "%send(%var(a), %hex(\"1F\"))"

\* C19: parse followed by parseConst preserves the value of every integer
\* literal: a negated decimal literal renders with its minus sign, and a
\* negated 0x literal does not render as the %hex term of the positive value.
C19_SignPreserved ==
    op = "main" =>
        /\ input.kind \in {"int", "negInt", "negIntSpaced", "negIntArg"} =>
              /\ out.exc = ""
              /\ out.text = FunctionText(input.place, DecimalLiteralText(input.kind))
        /\ input.kind \in {"negHex", "negHexArg"} =>
              \/ out.exc # ""
              \/ out.text # FunctionText(input.place, UnsignedHexText(input.kind))

(***************************************************************************)
(* SpecVar: parseStmt applied to an assignment that reads or writes a      *)
(* variable-reference chain: a base followed by up to MaxChainSteps        *)
(* attribute and subscript steps.  The statement stands alone on line 1.   *)
(***************************************************************************)
MaxChainSteps == 3

\* The bases: bare names, and the call g(x).
ChainBases == {"x", "self", "msg", "block", "balances", "g(x)"}

\* The steps: .balances, .sender, .prevhash, [_sender], [0]
ChainStepKinds == {"balances", "sender", "prevhash", "[_sender]", "[0]"}

StepIsAttr(s) == s \in {"balances", "sender", "prevhash"}

BaseSrc(b) ==
    CASE b = "x"        -> <<"x">>
      [] b = "self"     -> <<"s", "e", "l", "f">>
      [] b = "msg"      -> <<"m", "s", "g">>
      [] b = "block"    -> <<"b", "l", "o", "c", "k">>
      [] b = "balances" -> <<"b", "a", "l", "a", "n", "c", "e", "s">>
      [] b = "g(x)"     -> <<"g", "(", "x", ")">>

StepSrc(s) ==
    CASE s = "balances"  -> <<".", "b", "a", "l", "a", "n", "c", "e", "s">>
      [] s = "sender"    -> <<".", "s", "e", "n", "d", "e", "r">>
      [] s = "prevhash"  -> <<".", "p", "r", "e", "v", "h", "a", "s", "h">>
      [] s = "[_sender]" -> <<"[", "_", "s", "e", "n", "d", "e", "r", "]">>
      [] s = "[0]"       -> <<"[", "0", "]">>

BaseNode(b) ==
    IF b = "g(x)"
    THEN [t |-> "Call", func |-> [t |-> "Name", id |-> "g"],
          args |-> <<[t |-> "Name", id |-> "x"]>>, keywords |-> <<>>]
    ELSE [t |-> "Name", id |-> b]

\* The index expression of a subscript step that starts at column col.
StepIndexNode(s, col) ==
    IF s = "[0]"
    THEN [t |-> "Num", ntype |-> "int", n |-> 0, lineno |-> 1, col_offset |-> col]
    ELSE [t |-> "Name", id |-> "_sender"]

\* The source text of the first k steps of the chain.
RECURSIVE ChainSrc(_, _, _)
ChainSrc(base, steps, k) ==
    IF k = 0 THEN BaseSrc(base)
    ELSE ChainSrc(base, steps, k - 1) \o StepSrc(steps[k])

\* The node ast.parse gives for the first k steps of a chain at column col.
RECURSIVE ChainNode(_, _, _, _)
ChainNode(base, steps, k, col) ==
    IF k = 0 THEN BaseNode(base)
    ELSE IF StepIsAttr(steps[k])
    THEN [t |-> "Attribute", value |-> ChainNode(base, steps, k - 1, col),
          attr |-> steps[k]]
    ELSE [t |-> "Subscript", value |-> ChainNode(base, steps, k - 1, col),
          slice |-> [t |-> "Index",
                     value |-> StepIndexNode(steps[k],
                                  col + Len(ChainSrc(base, steps, k - 1)) + 1)]]

ChainSeqs == UNION { [1..m -> ChainStepKinds] : m \in 0..MaxChainSteps }

AddPrefix ==
    <<" ", "=", " ", "n", "u", "m", "2", "5", "6", "_", "a", "d", "d", "(">>

\* The assignment of the form: "store" is <chain> = _value, "load" is
\* v = <chain>, "add" is <chain> = num256_add(<chain>, _value).
ChainAssign(form, base, steps) ==
    LET src == ChainSrc(base, steps, Len(steps))
        value == [t |-> "Name", id |-> "_value"]
        valueSrc == <<"_", "v", "a", "l", "u", "e">>
    IN  [form  |-> form,
         base  |-> base,
         steps |-> steps,
         lines |-> << CASE form = "store" -> src \o <<" ", "=", " ">> \o valueSrc
                        [] form = "load"  -> <<"v", " ", "=", " ">> \o src
                        [] form = "add"   -> src \o AddPrefix \o src \o <<",", " ">>
                                             \o valueSrc \o <<")">> >>,
         ast   |-> CASE form = "store" ->
                        [t |-> "Assign",
                         targets |-> <<ChainNode(base, steps, Len(steps), 0)>>,
                         value |-> value]
                     [] form = "load" ->
                        [t |-> "Assign", targets |-> <<[t |-> "Name", id |-> "v"]>>,
                         value |-> ChainNode(base, steps, Len(steps), 4)]
                     [] form = "add" ->
                        [t |-> "Assign",
                         targets |-> <<ChainNode(base, steps, Len(steps), 0)>>,
                         value |-> [t |-> "Call",
                                    func |-> [t |-> "Name", id |-> "num256_add"],
                                    args |-> <<ChainNode(base, steps, Len(steps),
                                                         Len(src) + Len(AddPrefix)),
                                               value>>,
                                    keywords |-> <<>>]]]

\* A call is not an assignment target in Python.
InitVar ==
    /\ \E form \in {"store", "load", "add"}, base \in ChainBases, steps \in ChainSeqs :
           /\ (form # "load" /\ base = "g(x)") => steps # <<>>
           /\ input = ChainAssign(form, base, steps)
    /\ inputLines = input.lines
    /\ stmtsIndent = InitialIndent
    /\ out = NoOut
    /\ op = ""
    /\ runs = 0

ParseStmtStep ==
    /\ op = ""
    /\ out' = parseStmt(inputLines, input.ast, stmtsIndent, TopLevel)
    /\ stmtsIndent' = out'.indent
    /\ op' = "parseStmt"
    /\ runs' = runs + 1
    /\ UNCHANGED <<inputLines, input>>

NextVar == ParseStmtStep

SpecVar == InitVar /\ [][NextVar]_vars

(***************************************************************************)
(* Properties of parseVar and parseExpr on variable-reference chains.      *)
(***************************************************************************)
\* T of the index expression of a subscript step.
StepIndexText(s) == IF s = "[0]" THEN "0" ELSE "%var(_sender)"

\* V of the first k steps of a chain on a bare name, built from the base
\* outwards: %var for the name, %svar for the first step self.<f>, %subscript
\* and %attribute around the translation of the steps before.
RECURSIVE VarText(_, _, _)
VarText(base, steps, k) ==
    IF k = 0 THEN "%var(" \o base \o ")"
    ELSE IF ~StepIsAttr(steps[k])
    THEN "%subscript(" \o VarText(base, steps, k - 1) \o ", "
         \o StepIndexText(steps[k]) \o ")"
    ELSE IF k = 1 /\ base = "self" THEN "%svar(" \o steps[k] \o ")"
    ELSE "%attribute(" \o VarText(base, steps, k - 1) \o ", " \o steps[k] \o ")"

\* The chain starts with a whitelisted reserved property.
HasReservedPrefix(base, steps) ==
    steps # <<>> /\ <<base, steps[1]>> \in ReservedProperties

\* A chain that parseExpr hands to parseVar as a whole: it does not start with a
\* reserved property and is not the bare name self.
IsPlainChain(base, steps) ==
    ~HasReservedPrefix(base, steps) /\ ~(base = "self" /\ steps = <<>>)

\* parseVar is compositional on the chains written to by an assignment, and a
\* chain on a call is fatal.
VarChainRule ==
    (op = "parseStmt" /\ input.form \in {"store", "add"}) =>
        /\ input.base = "g(x)" => out.exc = "ParserException" /\ out.text = ""
        /\ (input.base # "g(x)" /\ input.form = "store") =>
              /\ out.exc = ""
              /\ out.text = "%assign(" \o VarText(input.base, input.steps, Len(input.steps))
                            \o ", %var(_value))"
        /\ (input.base # "g(x)" /\ input.form = "add"
                /\ IsPlainChain(input.base, input.steps)) =>
              /\ out.exc = ""
              /\ out.text = "%assign(" \o VarText(input.base, input.steps, Len(input.steps))
                            \o ", %num256_add("
                            \o VarText(input.base, input.steps, Len(input.steps))
                            \o ", %var(_value)))"

\* <base>[_sender] = num256_add(<base>[_sender], _value) has been translated.
IsAddExample(base, steps) ==
    op = "parseStmt" /\ input.form = "add" /\ input.base = base /\ input.steps = steps

\* The text of the example for the translation var of the variable balances.
AddExampleText(var) ==
    "%assign(%subscript(" \o var \o ", %var(_sender)), %num256_add(%subscript("
    \o var \o ", %var(_sender)), %var(_value)))"

\* C17 (as amended): parseVar translates a chain compositionally: %var(n) for a
\* plain name, %svar(f) for self.<f>, %subscript(V(chain), T(e)) for
\* <chain>[<e>], %attribute(V(chain), f) for <chain>.<f> on a non-self base, and
\* a chain on a call is a fatal ParserException; hence
\* self.balances[_sender] = num256_add(self.balances[_sender], _value) renders
\* with %svar(balances), while the same statement written on the bare name
\* balances renders with %var(balances).
C17_VarChain ==
    /\ VarChainRule
    /\ IsAddExample("self", <<"balances", "[_sender]">>) =>
          out.text = AddExampleText("%svar(balances)")
    /\ IsAddExample("balances", <<"[_sender]">>) =>
          out.text = AddExampleText("%var(balances)")

\* C17 as stated: the statement written on the bare name balances,
\* balances[_sender] = num256_add(balances[_sender], _value), renders with
\* %svar(balances).
C17_VarChainAsStated ==
    /\ VarChainRule
    /\ IsAddExample("balances", <<"[_sender]">>) =>
          out.text = AddExampleText("%svar(balances)")

\* C17 witness: self.balances[_sender] = num256_add(self.balances[_sender],
\* _value) has been translated to the term with %svar(balances).
C17_StorageExampleTranslated ==
    /\ IsAddExample("self", <<"balances", "[_sender]">>)
    /\ out.exc = ""
    /\ out.text = "%assign(%subscript(%svar(balances), %var(_sender)), "
                  \o "%num256_add(%subscript(%svar(balances), %var(_sender)), "
                  \o "%var(_value)))"

\* The translation of the first k >= 1 steps of a chain that starts with a
\* reserved property, when the property renders as its reserved term.
RECURSIVE ReservedChainText(_, _, _)
ReservedChainText(base, steps, k) ==
    IF k = 1 THEN "%" \o base \o "." \o steps[1]
    ELSE IF StepIsAttr(steps[k])
    THEN "%attribute(" \o ReservedChainText(base, steps, k - 1) \o ", " \o steps[k]
         \o ")"
    ELSE "%subscript(" \o ReservedChainText(base, steps, k - 1) \o ", "
         \o StepIndexText(steps[k]) \o ")"

\* C20: a whitelisted reserved property renders as its reserved term
\* %<name>.<attr> wherever it occurs in an expression, also as the base of a
\* longer attribute or subscript chain, and never as %attribute(%var(<name>),
\* <attr>).
C20_ReservedInContext ==
    (op = "parseStmt" /\ input.form = "load"
        /\ HasReservedPrefix(input.base, input.steps)) =>
        /\ out.exc = ""
        /\ out.text = "%assign(%var(v), "
                      \o ReservedChainText(input.base, input.steps, Len(input.steps))
                      \o ")"

(***************************************************************************)
(* The earlier variant of the translator, src/parser/viper_parser.py.      *)
(* Its functions carry the prefix Earlier_; get_original_if_0x_prefixed,   *)
(* parseList, parseDecorator and parseDecorators are the same text in both *)
(* variants.                                                               *)
(*                                                                         *)
(* Its parseFixed10Const works on decimal.Decimal under the default        *)
(* context: 28 significant digits, rounding half to even, InvalidOperation *)
(* trapped.  A Decimal is [neg, c, exp]: (-1)^neg * c * 10^exp with the    *)
(* coefficient c a Big.                                                    *)
(***************************************************************************)
DecimalPrec == 28

\* b * 5^n
RECURSIVE TimesPow5(_, _)
RECURSIVE TimesPow5Rest(_, _)
TimesPow5(b, n) ==
    IF n <= 6 THEN BigTimesSmall(b, 5 ^ n)
    ELSE TimesPow5Rest(TimesPow5(b, n \div 2), n - n \div 2)

TimesPow5Rest(h, n) == IF h = <<>> THEN <<>> ELSE TimesPow5(h, n)

\* The number of zero bits below the lowest set bit of m # 0.
TrailingZeroBits(m) ==
    CHOOSE k \in 0..(BitLen(m) - 1) :
        BitAt(m, k) = 1 /\ \A j \in 0..(k - 1) : BitAt(m, j) = 0

\* Decimal(x) of a finite float: exact.  With x = n / 2^k in lowest terms the
\* coefficient is n * 5^k and the exponent -k.
DecimalOfFloat(x) ==
    IF x.m = <<>> THEN [neg |-> x.neg, c |-> <<>>, exp |-> 0]
    ELSE IF x.e >= 0 THEN [neg |-> x.neg, c |-> BigShiftLeft(x.m, x.e), exp |-> 0]
    ELSE LET tz == TrailingZeroBits(x.m)
             s  == IF tz < 0 - x.e THEN tz ELSE 0 - x.e
         IN  [neg |-> x.neg, c |-> TimesPow5(BigShiftRight(x.m, s), 0 - x.e - s),
              exp |-> x.e + s]

DecimalDigits(c) == Len(BigToDec(c))

\* c / 10^drop rounded half to even to an integer, for drop >= 1.
RoundHalfEven(c, drop) ==
    LET t  == DivPow10(c, drop - 1, FALSE)
        g  == BigDivSmall(t.q, 10)
        up == g.r > 5 \/ (g.r = 5 /\ (t.sticky \/ BitAt(g.q, 0) = 1))
    IN  IF up THEN BigAdd(g.q, <<1>>) ELSE g.q

\* The integer part of |d|.
DecimalFloor(d) ==
    IF d.exp >= 0 THEN TimesPow10(d.c, d.exp) ELSE DivPow10(d.c, 0 - d.exp, FALSE).q

\* num % 1 raises InvalidOperation when the integer quotient does not fit the
\* precision.
DecimalModRaises(d) == DecimalDigits(DecimalFloor(d)) > DecimalPrec

\* num % 1 != 0
DecimalHasFraction(d) == d.exp < 0 /\ DivPow10(d.c, 0 - d.exp, FALSE).sticky

\* The context's rounding of a result to DecimalPrec significant digits; a
\* coefficient that the rounding carries to one digit more loses its last digit.
DecimalFixTo(d, r, drop) ==
    IF DecimalDigits(r) > DecimalPrec
    THEN [d EXCEPT !.c = BigDivSmall(r, 10).q, !.exp = @ + drop + 1]
    ELSE [d EXCEPT !.c = r, !.exp = @ + drop]

DecimalFix(d) ==
    IF DecimalDigits(d.c) <= DecimalPrec THEN d
    ELSE DecimalFixTo(d, RoundHalfEven(d.c, DecimalDigits(d.c) - DecimalPrec),
                      DecimalDigits(d.c) - DecimalPrec)

\* num *= 10
DecimalTimes10(d) == DecimalFix([d EXCEPT !.c = BigTimesSmall(@, 10)])

\* "{0:.0f}".format(num)
DecimalFormatF0(d) ==
    (IF d.neg THEN "-" ELSE "")
    \o DecText(BigToDec(IF d.exp >= 0 THEN TimesPow10(d.c, d.exp)
                        ELSE RoundHalfEven(d.c, 0 - d.exp)))

Earlier_parseBaseType(name) ==
    IF name.t = "Name" THEN Ok("%" \o name.id) ELSE Raise("ParserException")

\* The while loop of parseFixed10Const; its condition computes num % 1 first.
RECURSIVE Earlier_ScaleLoop(_, _)
Earlier_ScaleLoop(num, divisor) ==
    IF DecimalModRaises(num) THEN Raise("InvalidOperation")
    ELSE IF DecimalHasFraction(num) /\ DecLess(divisor, DECIMAL_DIVISOR)
    THEN Earlier_ScaleLoop(DecimalTimes10(num), DecTimes10(divisor))
    ELSE Ok("%fixed10(" \o DecimalFormatF0(num) \o ", " \o DecText(divisor) \o ")")

Earlier_parseFixed10Const(n) ==
    IF n.ntype = "complex" THEN Raise("TypeError")      \* Decimal(complex)
    ELSE IF n.n.kind = "inf" THEN Raise("InvalidOperation")   \* Infinity % 1
    ELSE Earlier_ScaleLoop(DecimalOfFloat(n.n), DecOne)

Earlier_parseConst(lines, n) ==
    IF n.t = "Num" /\ n.ntype = "int"
    THEN LET hexFormat == get_original_if_0x_prefixed(lines, n)
         IN  IF hexFormat.isNone
             THEN Ok(ToString(n.n))
             ELSE Ok("%hex(\"" \o JoinChars(Drop(hexFormat.s, 2)) \o "\")")
    ELSE IF n.t = "Num"    \* type(node.n == float) is a type object: always true
    THEN Earlier_parseFixed10Const(n)
    ELSE IF n.t = "Name" /\ n.id \in {"true", "false"} THEN Ok(n.id)
    ELSE Raise("ParserException")

RECURSIVE Earlier_parseType(_, _)
Earlier_parseType(lines, param) ==
    IF param.t = "None" THEN Ok("%void")
    ELSE IF param.t = "Name" THEN Earlier_parseBaseType(param)
    ELSE IF param.t = "Subscript"
    THEN (IF param.slice.t # "Index" THEN Raise("AttributeError")
          ELSE IF param.slice.value.t = "Num"
          THEN Fmt(<<Ok("%listT("), Earlier_parseType(lines, param.value), Ok(", "),
                     Earlier_parseConst(lines, param.slice.value), Ok(")")>>)
          ELSE Fmt(<<Ok("%mapT("), Earlier_parseType(lines, param.value), Ok(", "),
                     Earlier_parseType(lines, param.slice.value), Ok(")")>>))
    ELSE Raise("ParserException")

Earlier_parseEventParam(lines, key, value) ==
    IF value.t = "Call" /\ IdOf(value.func).exc # ""
    THEN Fmt(<<Ok("%eparam("), IdOf(key), IdOf(value.func)>>)
    ELSE IF value.t = "Call" /\ value.func.id = "indexed"
    THEN Fmt(<<Ok("%eparam("), IdOf(key), Ok(", "),
               IF value.args = <<>> THEN Raise("IndexError")
               ELSE Earlier_parseType(lines, value.args[1]),
               Ok(", true)")>>)
    ELSE IF value.t = "Name"
    THEN Fmt(<<Ok("%eparam("), IdOf(key), Ok(", "), Earlier_parseType(lines, value),
               Ok(", false)")>>)
    ELSE Fmt(<<IdOf(key), Raise("ParserException")>>)

Earlier_parseEventParams(lines, params) ==
    IF params.t # "Dict" THEN Raise("AttributeError")
    ELSE parseList([i \in 1..Len(params.keys) |->
                       Earlier_parseEventParam(lines, params.keys[i], params.values[i])],
                   " ", "", "")

\* Called with an AnnAssign whose annotation is a Call.
Earlier_parseEvent(lines, node) ==
    Fmt(<<Ok("  %event("), IdOf(node.target), Ok(", "),
          IF node.annotation.args = <<>> THEN Raise("IndexError")
          ELSE Earlier_parseEventParams(lines, node.annotation.args[1]),
          Ok(")")>>)

Earlier_parseGlobal(lines, node) ==
    Fmt(<<Ok("  %svdecl("), IdOf(node.target), Ok(", "),
          Earlier_parseType(lines, node.annotation), Ok(", %private)")>>)

Earlier_parseParam(lines, arg) ==
    Fmt(<<Ok("%param(" \o arg.arg \o ", "), Earlier_parseType(lines, arg.annotation),
          Ok(")")>>)

Earlier_parseParams(lines, args) ==
    parseList([i \in 1..Len(args) |-> Earlier_parseParam(lines, args[i])], " ", "", "")

Earlier_parseBinOp(o) ==
    IF o \in BinOps THEN parseBinOp(o) ELSE Raise("ParserException")

Earlier_parseAugAssignOp(o) == Fmt(<<Earlier_parseBinOp(o), Ok("=")>>)

RECURSIVE Earlier_parseVar(_, _)
RECURSIVE Earlier_parseExpr(_, _)

Earlier_parseExprs(lines, exprs, separator) ==
    parseList([i \in 1..Len(exprs) |-> Earlier_parseExpr(lines, exprs[i])],
              separator, "", "")

Earlier_parseVar(lines, var) ==
    IF var.t = "Name" THEN Ok("%var(" \o var.id \o ")")
    ELSE IF var.t = "Index" THEN Earlier_parseVar(lines, var.value)
    ELSE IF var.t = "Attribute" /\ var.value.t # "Name" THEN Raise("AttributeError")
    ELSE IF var.t = "Attribute" /\ var.value.id = "self"
    THEN Ok("%svar(" \o var.attr \o ")")
    ELSE IF var.t = "Subscript"
    THEN Fmt(<<Ok("%mapelem("), Earlier_parseVar(lines, var.value), Ok(", "),
               Earlier_parseExpr(lines, var.slice), Ok(")")>>)
    ELSE Raise("ParserException")

\* expr.func.id, then the arguments.
Earlier_parseCallExpr(lines, expr) ==
    IF expr.func.t # "Name" THEN Raise("AttributeError")
    ELSE IF expr.func.id = "as_wei_value"
    THEN (IF expr.args = <<>> THEN Raise("IndexError")
          ELSE Fmt(<<Ok("%as_wei_value("), Earlier_parseExpr(lines, expr.args[1]),
                     Ok(", "),
                     IF Len(expr.args) < 2 THEN Raise("IndexError")
                     ELSE IdOf(expr.args[2]),
                     Ok(")")>>))
    ELSE Fmt(<<Ok("%" \o expr.func.id \o "("),
               Earlier_parseExprs(lines, expr.args, ", "), Ok(")")>>)

\* Called with an Attribute whose value is a Name.
Earlier_parseReservedExpr(expr) == Ok("%" \o expr.value.id \o "." \o expr.attr)

Earlier_parseExpr(lines, expr) ==
    IF expr.t = "Num" \/ (expr.t = "Name" /\ expr.id \in {"true", "false"})
    THEN Earlier_parseConst(lines, expr)
    ELSE IF expr.t = "Name" /\ expr.id = "self" THEN Ok("%self")
    ELSE IF expr.t = "BinOp"
    THEN Fmt(<<Ok("%binop("), Earlier_parseBinOp(expr.op), Ok(", "),
               Earlier_parseExpr(lines, expr.left), Ok(", "),
               Earlier_parseExpr(lines, expr.right), Ok(")")>>)
    ELSE IF expr.t \in {"Name", "Index", "Subscript"} THEN Earlier_parseVar(lines, expr)
    ELSE IF expr.t = "Attribute" /\ expr.value.t # "Name" THEN Raise("AttributeError")
    ELSE IF expr.t = "Attribute" /\ expr.value.id = "self"
    THEN Earlier_parseVar(lines, expr)
    ELSE IF expr.t = "List"
    THEN Fmt(<<Ok("%list("), Earlier_parseExprs(lines, expr.elts, " "), Ok(")")>>)
    ELSE IF expr.t = "Attribute" THEN Earlier_parseReservedExpr(expr)
    ELSE IF expr.t = "Call" THEN Earlier_parseCallExpr(lines, expr)
    ELSE Raise("ParserException")

RECURSIVE Earlier_parseStmt(_, _, _, _)
RECURSIVE Earlier_parseStmts(_, _, _, _)
RECURSIVE Earlier_StmtsLoop(_, _, _, _, _, _)

\* The iterations of parseList from statement i on, r being the result of
\* parseStmt on it.
Earlier_StmtsFrom(lines, body, i, r, sep, used) ==
    IF r.exc # "" THEN r
    ELSE ListCons(sep, r, Earlier_StmtsLoop(lines, body, i + 1, r.indent, sep, used))

Earlier_StmtsLoop(lines, body, i, cur, sep, used) ==
    IF i > Len(body) THEN SRes("", "", cur, <<>>)
    ELSE Earlier_StmtsFrom(lines, body, i,
                           Earlier_parseStmt(lines, body[i], cur, used), sep, used)

Earlier_parseStmts(lines, body, indent, encl) ==
    StmtsReturn(Earlier_StmtsLoop(lines, body, 1, indent \o "  ",
                                  "\n" \o indent \o "  ", indent \o "  "),
                indent, indent \o "  ", encl)

\* stmt.iter.func.id == "range", for a For statement: the exception it raises,
\* or "True" / "False".
Earlier_IsRangeLoop(stmt) ==
    IF stmt.iter.t # "Call" THEN Raise("AttributeError")
    ELSE IF stmt.iter.func.t # "Name" THEN Raise("AttributeError")
    ELSE IF stmt.iter.func.id = "range" THEN Ok("True") ELSE Ok("False")

\* stmt.iter.args[k] translated, for k counted from 0.
Earlier_RangeArg(lines, it, k) ==
    IF Len(it.args) > k THEN Earlier_parseExpr(lines, it.args[k + 1])
    ELSE Raise("IndexError")

\* The text of a for statement over range before its body.
Earlier_ForHead(lines, stmt) ==
    IF Len(stmt.iter.args) = 1
    THEN Fmt(<<Ok("%forrange("), IdOf(stmt.target), Ok(", "),
               Earlier_RangeArg(lines, stmt.iter, 0), Ok(",")>>)
    ELSE Fmt(<<Ok("%forrange("), IdOf(stmt.target), Ok(", "),
               Earlier_RangeArg(lines, stmt.iter, 0), Ok(", "),
               Earlier_RangeArg(lines, stmt.iter, 1), Ok(",")>>)

\* `stmt.orelse is None' holds of no list, so the first format is never used.
\* The second, given the results for the test and the body.
Earlier_IfStmt(lines, stmt, test, body, indent, encl) ==
    SFmt(<<test, body,
           Block(Lift(Ok(","), body.indent),
                 Earlier_parseStmts(lines, stmt.orelse, body.indent, encl), ")",
                 body.indent)>>, indent)

\* return "": the placeholder for a statement that is not recognized.
EmptyPlaceholder == Ok("")

Earlier_parseStmt(lines, stmt, indent, encl) ==
    IF stmt.t = "Assign"
    THEN Lift(Fmt(<<Ok("%assign("), Earlier_parseVar(lines, stmt.targets[1]), Ok(", "),
                    Earlier_parseExpr(lines, stmt.value), Ok(")")>>), indent)
    ELSE IF stmt.t = "AugAssign"
    THEN Lift(Fmt(<<Ok("%augassign("), Earlier_parseAugAssignOp(stmt.op), Ok(", "),
                    Earlier_parseVar(lines, stmt.target), Ok(", "),
                    Earlier_parseExpr(lines, stmt.value), Ok(")")>>), indent)
    ELSE IF stmt.t = "Expr" /\ stmt.value.t = "Call"
    THEN (IF stmt.value.func.t = "Attribute" /\ FuncBaseId(stmt.value.func).exc # ""
          THEN Lift(FuncBaseId(stmt.value.func), indent)
          ELSE IF stmt.value.func.t = "Attribute" /\ stmt.value.func.value.id = "log"
          THEN Lift(Fmt(<<Ok("%log(" \o stmt.value.func.attr \o ", "),
                          Earlier_parseExprs(lines, stmt.value.args, " "), Ok(")")>>),
                    indent)
          ELSE IF stmt.value.func.t = "Name" /\ stmt.value.func.id = "send"
          THEN Lift(Fmt(<<Ok("%send("), Earlier_parseExprs(lines, stmt.value.args, ", "),
                          Ok(")")>>), indent)
          ELSE Lift(EmptyPlaceholder, indent))
    ELSE IF stmt.t = "If"
    THEN Earlier_IfStmt(lines, stmt,
                        Lift(Fmt(<<Ok("%if("), Earlier_parseExpr(lines, stmt.test),
                                   Ok(",")>>), indent),
                        Earlier_parseStmts(lines, stmt.body, indent, encl), indent, encl)
    ELSE IF stmt.t = "For" /\ Earlier_IsRangeLoop(stmt).exc # ""
    THEN Lift(Earlier_IsRangeLoop(stmt), indent)
    ELSE IF stmt.t = "For" /\ Earlier_IsRangeLoop(stmt).text = "True"
    THEN Block(Lift(Earlier_ForHead(lines, stmt), indent),
               Earlier_parseStmts(lines, stmt.body, indent, encl), ")", indent)
    ELSE IF stmt.t = "Return"
    THEN (IF stmt.value.t = "None" THEN Lift(Ok("%return"), indent)
          ELSE Lift(Fmt(<<Ok("%return("), Earlier_parseExpr(lines, stmt.value),
                          Ok(")")>>), indent))
    ELSE IF stmt.t = "Pass" THEN Lift(Ok("%pass"), indent)
    ELSE Lift(EmptyPlaceholder, indent)

Earlier_parseDef(lines, node, indent) ==
    Block(Lift(Fmt(<<Ok("  %fdecl("), parseDecorators(node.decorator_list),
                     Ok(", " \o node.name \o ", "),
                     Earlier_parseParams(lines, node.args), Ok(", "),
                     Earlier_parseType(lines, node.returns), Ok(",")>>), indent),
          Earlier_parseStmts(lines, node.body, indent, TopLevel), ")", indent)

\* parseList(defs, parseDef, "\n", "\n", " ")
RECURSIVE Earlier_DefsLoop(_, _, _, _)

Earlier_DefsFrom(lines, defs, i, r) ==
    IF r.exc # "" THEN r
    ELSE ListCons("\n", r, Earlier_DefsLoop(lines, defs, i + 1, r.indent))

Earlier_DefsLoop(lines, defs, i, cur) ==
    IF i > Len(defs) THEN SRes("", "", cur, <<>>)
    ELSE Earlier_DefsFrom(lines, defs, i, Earlier_parseDef(lines, defs[i], cur))

\* One iteration of the scan of parseProgram.
Earlier_Classify(b, node) ==
    IF node.t = "AnnAssign" /\ node.annotation.t = "Call"
    THEN [b EXCEPT !.events = Append(@, node)]
    ELSE IF node.t = "AnnAssign" THEN [b EXCEPT !.globals = Append(@, node)]
    ELSE IF node.t = "FunctionDef" THEN [b EXCEPT !.defs = Append(@, node)]
    ELSE [b EXCEPT !.exc = "ParserException"]

RECURSIVE Earlier_ScanLoop(_, _, _)
Earlier_ScanLoop(nodeList, i, b) ==
    IF i > Len(nodeList) \/ b.exc # "" THEN b
    ELSE Earlier_ScanLoop(nodeList, i + 1, Earlier_Classify(b, nodeList[i]))

\* The part of parseProgram after the scan that left the buckets b.
Earlier_RenderProgram(lines, b, indent) ==
    IF b.exc # "" THEN SRes(b.exc, "", indent, <<>>)
    ELSE Block(Lift(Fmt(<<Ok("%pgm("),
                          parseList([i \in 1..Len(b.events) |->
                                        Earlier_parseEvent(lines, b.events[i])],
                                    "\n", "\n", ""),
                          Ok(","),
                          parseList([i \in 1..Len(b.globals) |->
                                        Earlier_parseGlobal(lines, b.globals[i])],
                                    "\n", "\n", " "),
                          Ok(",")>>), indent),
               OrEmptyCase(Earlier_DefsLoop(lines, b.defs, 1, indent), " "),
               "\n)", indent)

Earlier_parseProgram(lines, nodeList, indent) ==
    Earlier_RenderProgram(lines, Earlier_ScanLoop(nodeList, 1, EmptyBuckets), indent)

\* ast.parse alone: the tree is taken as ast.parse returns it.
Earlier_parse(tree) == tree

\* The script body: inputLines = input.splitlines(), parse, parseProgram.
Earlier_main(src, indent) ==
    Earlier_parseProgram(src.lines, Earlier_parse(src.tree), indent)

(***************************************************************************)
(* SpecEarlier: one run of either variant on a program of the statement    *)
(* pool, each run in a process of its own.                                 *)
(***************************************************************************)
EarlierMain(src) ==
    /\ runs < MaxRuns
    /\ input' = src
    /\ inputLines' = src.lines
    /\ out' = Earlier_main(src, stmtsIndent)
    /\ stmtsIndent' = out'.indent
    /\ op' = "earlier"
    /\ runs' = runs + 1

NextEarlier == op = "" /\ (EarlierMain(input) \/ Main(input))

SpecEarlier == InitStmt /\ [][NextEarlier]_vars

\* The Program the earlier variant gives `def f():' when its statement
\* translates to the text stmt.
EarlierFunctionText(place, stmt) ==
    "%pgm(, ,\n  %fdecl(, f, , %void,\n    "
    \o (IF IsNested(place) THEN "%if(%var(c),\n      " \o stmt \o ",)" ELSE stmt)
    \o (IF IsFollowed(place) THEN "\n    %pass" ELSE "")
    \o ")\n)"

\* The statements of the pool that the earlier variant does not recognize: a
\* statement of a kind its parseStmt does not list, or a call statement that
\* is neither log.<Event>(...) nor send(...).
EarlierUnrecognizedKinds ==
    {"break", "assert", "throw", "decl", "unitDiv", "unitPow", "unitAdd",
     "unitFloorDiv", "while", "continue", "delete", "raise", "import", "exprName",
     "exprNum", "exprAttr", "selfdestruct", "kwSelfdestruct", "callName", "callAttr",
     "callSelf", "callDeep", "callSubscript", "callCall"}

\* C18: in the earlier variant parseStmt returns the empty placeholder for
\* every statement it does not recognize, the remaining statements are
\* translated and a Program text is produced; the later variant fails on the
\* statements that it does not recognize either.
C18_PlaceholderThenFailFast ==
    /\ (op = "earlier" /\ input.kind \in EarlierUnrecognizedKinds) =>
          /\ out.exc = ""
          /\ out.text = EarlierFunctionText(input.place, "")
    /\ (op = "main" /\ input.kind \in UnsupportedShapeKinds) => out.exc # ""

(***************************************************************************)
(* Assignments with several targets and declarations with an initializer.  *)
(***************************************************************************)
\* The statements of the pool that assign to more than one target or declare
\* a variable with an initializer.
MultiPartKinds ==
    {"assign2", "assign3", "assignTuple", "declInit", "declInitExpr", "declInitCall"}

\* The term that keeps the first target and the value of the assignment only,
\* or the declaration without its initializer.
FirstPartOnlyText(k) ==
    CASE k = "assign2"     -> "%assign(%var(a), 1)"
      [] k = "assign3"     -> "%assign(%var(a), %var(x))"
      [] k = "assignTuple" -> "%assign(%var(a), %var(c))"
      [] OTHER             -> "%vdecl(x, %num)"

\* C21: an assignment with several targets and an annotated declaration with
\* an initializer are either rejected with ParserException or rendered whole;
\* the Program never holds the term from which the later targets or the
\* initializer are missing.
C21_NothingDiscarded ==
    (op = "main" /\ input.kind \in MultiPartKinds) =>
        \/ out.exc = "ParserException"
        \/ /\ out.exc = ""
           /\ out.text # FunctionText(input.place, FirstPartOnlyText(input.kind))

====
